---- MODULE Spec2Model ----
(***************************************************************************)
(* Model of the BrightnessController repository (modular version under     *)
(* src/src/core, with the single-file variant src/src/brightness_          *)
(* controller.py where the two differ).                                    *)
(*                                                                         *)
(* Text is modelled as sequences of one-character strings, so that         *)
(* parsing, sanitising and formatting are computed character by character. *)
(* Python values handed to the validation and control operations are       *)
(* records [ty, n, d, s]:                                                  *)
(*   ty = "int"    the integer n                                           *)
(*   ty = "bigint" an integer beyond the range of a double (sign n)        *)
(*   ty = "float"  the finite float n / d  (d a power of ten)              *)
(*   ty = "inf"    the float +inf or -inf (sign n)                         *)
(*   ty = "nan"    the float NaN                                           *)
(*   ty = "str"    the string s                                            *)
(*   ty = "none"   None                                                    *)
(***************************************************************************)
EXTENDS Integers, Sequences, FiniteSets, TLC

VARIABLES
    security,      \* which SecurityManager was injected into the controllers
    last,          \* record of the last completed operation (observable result)
    displays,      \* DisplayDetector.displays
    dpc,           \* position of the thread running detect_displays
    brightness_displays, \* WMIDisplayDetector.detect_displays local brightness_displays
    current_displays,    \* WMIDisplayDetector.detect_displays local current_displays
    wmi_displays,  \* DisplayDetector.detect_displays local wmi_displays
    ddc_displays,  \* DisplayDetector.detect_displays local ddc_displays
    outcomes,      \* how the external calls of the current detection run ended
    ddc_sets,      \* number of sets the placeholder strategy has reported done (capped)
    runs,          \* number of completed detect_displays runs (capped)
    variant,       \* which GUI was constructed: BrightnessGUI or OptimizedBrightnessGUI
    gui_displays,  \* what the GUI's display_detector holds as its list of displays
    current_display,  \* self.current_display
    updating,      \* BrightnessGUI.updating
    workers,       \* the threading.Thread objects that are running
    posted,        \* callbacks handed to root.after(0, ...), not yet run
    brightness_var,   \* self.brightness_var (the slider's variable)
    now,           \* time.time(), in milliseconds
    timers,        \* the root.after(150, ...) timers that are pending
    update_timer,  \* self.update_timer (0 for None)
    next_timer,    \* the identifier the next root.after(150, ...) returns
    last_brightness_update,  \* self.last_brightness_update, in milliseconds
    ext_threads,   \* the threads that have executed an external call
    widget_threads,   \* the threads that have modified a visible element
    readback_updating,  \* the values of updating seen when a read-back value was put into the slider
    last_write,    \* when the last background write was started (-1: never)
    min_gap,       \* the shortest time between two consecutive starts (-1: none yet)
    brightness_label,  \* the percentage self.brightness_label shows
    before,        \* what the GUI showed before the operation now running alone was triggered
    write_targets, \* whether the writes went to the display selected at their event
    last_event,    \* what became of the user's last slider or preset event
    recording      \* which of the three histories above is kept in this behaviour

timer_vars == <<now, timers, update_timer, next_timer, last_brightness_update,
                last_write, min_gap>>

history_vars == <<before, write_targets, last_event>>

\* a history is kept only under the specification that sets it at the start
Histories == {"none", "failures", "targets", "events"}

gui_vars == <<variant, gui_displays, current_display, updating, workers, posted,
              brightness_var, timer_vars, ext_threads, widget_threads,
              readback_updating, brightness_label, history_vars, recording>>

vars == <<security, last, displays, dpc, brightness_displays, current_displays,
         wmi_displays, ddc_displays, outcomes, ddc_sets, runs, gui_vars>>

-----------------------------------------------------------------------------
(* Bounds of the model *)

\* longest string handed to validate_brightness_value / set_brightness
MaxStrLen == 3

\* threads of the GUI running at the same time
MaxWorkers == 2

\* callbacks waiting for the interaction thread
MaxPosted == 3

\* root.after(150, ...) timers created in one behaviour
MaxTimers == 2

\* time.time() when the GUI is constructed, in milliseconds
StartTime == 1000

\* the last instant of a behaviour, in milliseconds
MaxTime == 1500
\* longest command token handed to sanitize_powershell_command
MaxTokLen == 3
\* most lines of output a detection query prints
MaxLines == 4
\* most monitors the native enumeration reports
MaxMonitors == 2
\* detect_displays runs counted before the counter saturates
MaxRuns == 2
\* most lines of output the brightness query prints
MaxGetLines == 2
\* cap of the count of sets the placeholder strategy reported done
MaxSets == 2

-----------------------------------------------------------------------------
(* Characters *)

Digits == {"0", "1", "2", "3", "4", "5", "6", "7", "8", "9"}

Lower == {"a", "b", "c", "d", "e", "f", "g", "h", "i", "j", "k", "l", "m",
          "n", "o", "p", "q", "r", "s", "t", "u", "v", "w", "x", "y", "z"}

Upper == {"A", "B", "C", "D", "E", "F", "G", "H", "I", "J", "K", "L", "M",
          "N", "O", "P", "Q", "R", "S", "T", "U", "V", "W", "X", "Y", "Z"}

\* \s of the regular expressions, and what str.strip() removes
Whitespace == {" ", "\t", "\n", "\r"}

\* the characters of safe_powershell_pattern: [a-zA-Z0-9\s\-_=().,:/\\]
SafeChars == Lower \cup Upper \cup Digits \cup Whitespace
             \cup {"-", "_", "=", "(", ")", ".", ",", ":", "/", "\\"}

\* all sequences over S of length at most n
SeqsUpTo(S, n) == UNION {[1..k -> S] : k \in 0..n}

RECURSIVE LStrip(_)
LStrip(s) == IF s # <<>> /\ Head(s) \in Whitespace THEN LStrip(Tail(s)) ELSE s

RECURSIVE RStrip(_)
RStrip(s) == IF s # <<>> /\ s[Len(s)] \in Whitespace
             THEN RStrip(SubSeq(s, 1, Len(s) - 1)) ELSE s

\* str.strip()
Strip(s) == RStrip(LStrip(s))

\* the character U+00B2 (superscript two), written as one symbol: a digit
\* for str.isdigit(), no decimal digit for int()
SuperscriptTwo == "^2"

\* str.isdigit() on the modelled alphabet: non-empty and all digits
IsDigit(s) == s # <<>> /\ \A i \in 1..Len(s) : s[i] \in Digits \cup {SuperscriptTwo}

DigitVal(c) == CASE c = "0" -> 0 [] c = "1" -> 1 [] c = "2" -> 2 [] c = "3" -> 3
                 [] c = "4" -> 4 [] c = "5" -> 5 [] c = "6" -> 6 [] c = "7" -> 7
                 [] c = "8" -> 8 [] c = "9" -> 9

DigitChar(k) == CASE k = 0 -> "0" [] k = 1 -> "1" [] k = 2 -> "2" [] k = 3 -> "3"
                  [] k = 4 -> "4" [] k = 5 -> "5" [] k = 6 -> "6" [] k = 7 -> "7"
                  [] k = 8 -> "8" [] k = 9 -> "9"

RECURSIVE DigitsToNat(_)
\* int() of a string of digits
DigitsToNat(s) == IF s = <<>> THEN 0
                  ELSE 10 * DigitsToNat(SubSeq(s, 1, Len(s) - 1)) + DigitVal(s[Len(s)])

RECURSIVE NatToDigits(_)
\* str() of a natural number
NatToDigits(k) == IF k < 10 THEN <<DigitChar(k)>>
                  ELSE NatToDigits(k \div 10) \o <<DigitChar(k % 10)>>

RECURSIVE Pow10(_)
Pow10(k) == IF k = 0 THEN 1 ELSE 10 * Pow10(k - 1)

\* integer division truncating toward zero, as int(float) truncates
TruncDiv(n, d) == IF n >= 0 THEN n \div d ELSE -((-n) \div d)

-----------------------------------------------------------------------------
(* Python values *)

PyInt(k) == [ty |-> "int", n |-> k, d |-> 1, s |-> <<>>]
PyBigInt(sign) == [ty |-> "bigint", n |-> sign, d |-> 1, s |-> <<>>]
PyFloat(num, den) == [ty |-> "float", n |-> num, d |-> den, s |-> <<>>]
PyInf(sign) == [ty |-> "inf", n |-> sign, d |-> 1, s |-> <<>>]
PyNaN == [ty |-> "nan", n |-> 0, d |-> 1, s |-> <<>>]
PyStr(chars) == [ty |-> "str", n |-> 0, d |-> 1, s |-> chars]
PyNone == [ty |-> "none", n |-> 0, d |-> 1, s |-> <<>>]

\* the marker of a ValueError raised while a value was computed
PyRaised == [ty |-> "raised", n |-> 0, d |-> 1, s |-> <<>>]

\* int() of a text str.isdigit() accepted: its value, or ValueError when
\* a character is no decimal digit
IntOfDigits(s) == IF \A i \in 1..Len(s) : s[i] \in Digits
                  THEN PyInt(DigitsToNat(s)) ELSE PyRaised

\* length of the longest prefix of s made of digits
RECURSIVE DigitPrefixLen(_)
DigitPrefixLen(s) == IF s # <<>> /\ Head(s) \in Digits
                     THEN 1 + DigitPrefixLen(Tail(s)) ELSE 0

\* the last step of float(str): sign, integer digits and fraction digits
ParseDigits(sign, ipart, fpart) ==
    IF (\A i \in 1..Len(fpart) : fpart[i] \in Digits) /\ Len(ipart) + Len(fpart) > 0
    THEN [exc |-> "none",
          f |-> PyFloat(sign * DigitsToNat(ipart \o fpart), Pow10(Len(fpart)))]
    ELSE [exc |-> "ValueError", f |-> PyNaN]

\* what follows the integer digits is nothing, or a "." and the fraction
ParseParts(sign, ipart, after) ==
    IF after = <<>> THEN ParseDigits(sign, ipart, <<>>)
    ELSE IF Head(after) = "." THEN ParseDigits(sign, ipart, Tail(after))
    ELSE [exc |-> "ValueError", f |-> PyNaN]

ParseUnsigned(sign, rest) ==
    ParseParts(sign, SubSeq(rest, 1, DigitPrefixLen(rest)),
               SubSeq(rest, DigitPrefixLen(rest) + 1, Len(rest)))

ParseSigned(body) ==
    IF body # <<>> /\ Head(body) = "-" THEN ParseUnsigned(-1, Tail(body))
    ELSE IF body # <<>> /\ Head(body) = "+" THEN ParseUnsigned(1, Tail(body))
    ELSE ParseUnsigned(1, body)

\* float(str) for decimal literals [sign] digits [. digits] (at least one
\* digit), surrounded by optional whitespace; anything else is a ValueError.
\* The input alphabet of the model holds no exponent, underscore or
\* inf/nan letters, so the literal grammar is exact on it.
ParseFloatStr(s) == ParseSigned(Strip(s))

\* float(value): the exception raised ("none" if none) and the float
ToFloat(v) ==
    CASE v.ty = "int" -> [exc |-> "none", f |-> PyFloat(v.n, 1)]
      [] v.ty = "bigint" -> [exc |-> "OverflowError", f |-> PyNaN]
      [] v.ty \in {"float", "inf", "nan"} -> [exc |-> "none", f |-> v]
      [] v.ty = "str" -> ParseFloatStr(v.s)
      [] OTHER -> [exc |-> "TypeError", f |-> PyNaN]

\* int(f) for a float f: truncation; int(inf) and int(nan) raise
FloatToInt(f) ==
    CASE f.ty = "float" -> [exc |-> "none", i |-> TruncDiv(f.n, f.d)]
      [] f.ty = "inf" -> [exc |-> "OverflowError", i |-> 0]
      [] OTHER -> [exc |-> "ValueError", i |-> 0]

\* lo <= f <= hi for a float f and integers lo, hi (comparisons with NaN are false)
FloatBetween(lo, f, hi) ==
    /\ f.ty = "float"
    /\ lo * f.d <= f.n
    /\ f.n <= hi * f.d

-----------------------------------------------------------------------------
(* String literals of the source, as character sequences *)

\* "root/WMI"
S_root_WMI ==
    <<"r", "o", "o", "t", "/", "W", "M", "I">>

\* "root/CIMV2"
S_root_CIMV2 ==
    <<"r", "o", "o", "t", "/", "C", "I", "M", "V", "2">>

\* "root/StandardCimv2"
S_root_StandardCimv2 ==
    <<"r", "o", "o", "t", "/", "S", "t", "a", "n", "d", "a", "r",
      "d", "C", "i", "m", "v", "2">>

\* "root/Evil"
S_root_Evil ==
    <<"r", "o", "o", "t", "/", "E", "v", "i", "l">>

\* "root/wmi"
S_root_wmi ==
    <<"r", "o", "o", "t", "/", "w", "m", "i">>

\* "WmiMonitorBrightness"
S_WmiMonitorBrightness ==
    <<"W", "m", "i", "M", "o", "n", "i", "t", "o", "r", "B", "r",
      "i", "g", "h", "t", "n", "e", "s", "s">>

\* "WmiMonitorBrightnessMethods"
S_WmiMonitorBrightnessMethods ==
    <<"W", "m", "i", "M", "o", "n", "i", "t", "o", "r", "B", "r",
      "i", "g", "h", "t", "n", "e", "s", "s", "M", "e", "t", "h",
      "o", "d", "s">>

\* "Win32_DesktopMonitor"
S_Win32_DesktopMonitor ==
    <<"W", "i", "n", "3", "2", "_", "D", "e", "s", "k", "t", "o",
      "p", "M", "o", "n", "i", "t", "o", "r">>

\* "Win32_VideoController"
S_Win32_VideoController ==
    <<"W", "i", "n", "3", "2", "_", "V", "i", "d", "e", "o", "C",
      "o", "n", "t", "r", "o", "l", "l", "e", "r">>

\* "Win32_Process"
S_Win32_Process ==
    <<"W", "i", "n", "3", "2", "_", "P", "r", "o", "c", "e", "s",
      "s">>

\* "WmiSetBrightness"
S_WmiSetBrightness ==
    <<"W", "m", "i", "S", "e", "t", "B", "r", "i", "g", "h", "t",
      "n", "e", "s", "s">>

\* "Delete"
S_Delete ==
    <<"D", "e", "l", "e", "t", "e">>

\* "powershell"
S_powershell ==
    <<"p", "o", "w", "e", "r", "s", "h", "e", "l", "l">>

\* "-Command"
S_Command ==
    <<"-", "C", "o", "m", "m", "a", "n", "d">>

\* "Get-WmiObject -Namespace "
S_GetWmiObject_Namespace ==
    <<"G", "e", "t", "-", "W", "m", "i", "O", "b", "j", "e", "c",
      "t", " ", "-", "N", "a", "m", "e", "s", "p", "a", "c", "e",
      " ">>

\* " -Class "
S_Class ==
    <<" ", "-", "C", "l", "a", "s", "s", " ">>

\* " | Select-Object CurrentBrightness"
S_Select_CurrentBrightness ==
    <<" ", "|", " ", "S", "e", "l", "e", "c", "t", "-", "O", "b",
      "j", "e", "c", "t", " ", "C", "u", "r", "r", "e", "n", "t",
      "B", "r", "i", "g", "h", "t", "n", "e", "s", "s">>


-----------------------------------------------------------------------------
(* SecurityManager (src/src/core/security_manager.py) *)

\* safe_brightness_range = (0, 100)
safe_brightness_lo == 0
safe_brightness_hi == 100

\* the range check with an upper bound that excludes 100
InSafeRange_strict(f) ==
    FloatBetween(safe_brightness_lo, f, safe_brightness_hi - 1)

\* safe_brightness_range[0] <= numeric_value <= safe_brightness_range[1]
InSafeRange(f) == FloatBetween(safe_brightness_lo, f, safe_brightness_hi)

\* the try/except (ValueError, TypeError) around float(value), given the
\* outcome r of float(value); any other exception propagates
ValidateFloat(r) ==
    IF r.exc \in {"ValueError", "TypeError"} THEN [exc |-> "none", ret |-> FALSE]
    ELSE IF r.exc # "none" THEN [exc |-> r.exc, ret |-> FALSE]
    ELSE [exc |-> "none", ret |-> InSafeRange(r.f)]

\* SecurityManager.validate_brightness_value: the exception that surfaces
\* ("none" if none) and the returned boolean
validate_brightness_value(value) == ValidateFloat(ToFloat(value))

\* the bare except of the single-file variant, given the outcome of float(value)
Fast_ValidateFloat(r) ==
    IF r.exc # "none" THEN [exc |-> "none", ret |-> FALSE]
    ELSE [exc |-> "none", ret |-> FloatBetween(0, r.f, 100)]

\* the single-file SecurityManager.validate_brightness_value
Fast_validate_brightness_value(value) == Fast_ValidateFloat(ToFloat(value))

\* safe_powershell_pattern.match(part_str): ^[safe]+$
MatchesSafePattern(part) ==
    part # <<>> /\ \A i \in 1..Len(part) : part[i] \in SafeChars

IsSafeChar(c) == c \in SafeChars

\* a sanitiser that leaves every part as it is
SanitizePart_keep(part) == part

\* one iteration of the loop of sanitize_powershell_command: a part that
\* matches the safe pattern is kept, any other loses its unsafe characters
SanitizePart(part) ==
    IF ~MatchesSafePattern(part) THEN SelectSeq(part, IsSafeChar) ELSE part

\* SecurityManager.sanitize_powershell_command
sanitize_powershell_command(cmd) == [i \in 1..Len(cmd) |-> SanitizePart(cmd[i])]

safe_namespaces == {S_root_WMI, S_root_CIMV2, S_root_StandardCimv2}

safe_classes == {S_WmiMonitorBrightness, S_WmiMonitorBrightnessMethods,
                 S_Win32_DesktopMonitor, S_Win32_VideoController}

\* a namespace check that accepts every namespace under root/
validate_wmi_namespace_prefix(namespace) ==
    Len(namespace) >= 5 /\ SubSeq(namespace, 1, 5) = SubSeq(S_root_WMI, 1, 5)

\* SecurityManager.validate_wmi_namespace
validate_wmi_namespace(namespace) == namespace \in safe_namespaces

\* SecurityManager.validate_wmi_class
validate_wmi_class(class_name) == class_name \in safe_classes

\* "Get-WmiObject -Namespace {namespace} -Class {class_name}"
GetWmiObject(namespace, class_name) ==
    S_GetWmiObject_Namespace \o namespace \o S_Class \o class_name

\* the three command templates of create_safe_wmi_command
WmiQuery(namespace, class_name, method, parameters) ==
    IF method # <<>>
    THEN IF parameters # <<>>
         THEN <<"(">> \o GetWmiObject(namespace, class_name) \o <<")", ".">>
              \o method \o <<"(">> \o parameters \o <<")">>
         ELSE <<"(">> \o GetWmiObject(namespace, class_name) \o <<")", ".">>
              \o method \o <<"(", ")">>
    ELSE GetWmiObject(namespace, class_name)

\* SecurityManager.create_safe_wmi_command. method and parameters are
\* character sequences; the empty sequence stands for None and for "",
\* which the code both treats as absent ("if method:").
\* The result is the token list, <<>> for the empty list.
create_safe_wmi_command(namespace, class_name, method, parameters) ==
    IF ~validate_wmi_namespace(namespace) THEN <<>>
    ELSE IF ~validate_wmi_class(class_name) THEN <<>>
    ELSE sanitize_powershell_command(
             <<S_powershell, S_Command,
               WmiQuery(namespace, class_name, method, parameters)>>)

-----------------------------------------------------------------------------
(* Display records and detection (src/src/core/display_detector.py) *)

\* "Laptop Display "
S_Laptop_Display ==
    <<"L", "a", "p", "t", "o", "p", " ", "D", "i", "s", "p", "l",
      "a", "y", " ">>

\* "External Monitor "
S_External_Monitor ==
    <<"E", "x", "t", "e", "r", "n", "a", "l", " ", "M", "o", "n",
      "i", "t", "o", "r", " ">>

\* "Primary Display"
S_Primary_Display ==
    <<"P", "r", "i", "m", "a", "r", "y", " ", "D", "i", "s", "p",
      "l", "a", "y">>

\* DisplayInfo(name, display_type, method, **kwargs). The keyword
\* properties the detectors set are kept as fields; a property a record
\* does not carry is <<>>, FALSE or 0. rect_info is not modelled.
DisplayInfo(name, display_type, method, instance, methods, current, handle, fallback) ==
    [name |-> name, type |-> display_type, method |-> method,
     instance |-> instance,
     supports_brightness_methods |-> methods,
     supports_current_brightness |-> current,
     handle |-> handle,
     is_fallback |-> fallback]

\* str.join of lines with "\n"
RECURSIVE JoinLines(_)
JoinLines(ls) == IF ls = <<>> THEN <<>>
                 ELSE IF Len(ls) = 1 THEN ls[1]
                 ELSE ls[1] \o <<"\n">> \o JoinLines(Tail(ls))

\* index of the first "\n" of s, 0 if there is none
RECURSIVE FirstNewline(_, _)
FirstNewline(s, i) == IF i > Len(s) THEN 0
                      ELSE IF s[i] = "\n" THEN i ELSE FirstNewline(s, i + 1)

\* str.split('\n'): always at least one (possibly empty) piece
RECURSIVE SplitLines(_)
SplitLines(s) ==
    LET k == FirstNewline(s, 1)
    IN IF k = 0 THEN <<s>>
       ELSE <<SubSeq(s, 1, k - 1)>> \o SplitLines(SubSeq(s, k + 1, Len(s)))

\* the outcome of subprocess.run(cmd, capture_output=True, text=True, timeout=..):
\*   kind = "timeout"   subprocess.TimeoutExpired
\*   kind = "suberror"  another subprocess.SubprocessError
\*   kind = "oserror"   any other exception (powershell missing, ...)
\*   kind = "done"      a CompletedProcess with returncode rc and stdout out
RunDone(rc, out) == [kind |-> "done", rc |-> rc, out |-> out]
RunFailed(kind) == [kind |-> kind, rc |-> 0, out |-> <<>>]

\* lines[2:] filtered by "line.strip() and not line.startswith('-')"
IsDataLine(line) == Strip(line) # <<>> /\ Head(line) # "-"

\* lines[2:]
SkipHeader(lines) == SubSeq(lines, 3, Len(lines))

\* the data lines of a query's output, display_detector.py lines 85-89
DataLines(out) == SelectSeq(SkipHeader(SplitLines(Strip(out))), IsDataLine)

\* the exception classes an exception is an instance of
PyAncestors(exc) ==
    CASE exc = "TimeoutExpired" -> {"TimeoutExpired", "SubprocessError", "Exception"}
      [] exc = "SubprocessError" -> {"SubprocessError", "Exception"}
      [] exc = "OSError" -> {"OSError", "Exception"}
      [] exc = "ValueError" -> {"ValueError", "Exception"}
      [] exc = "TypeError" -> {"TypeError", "Exception"}
      [] exc = "OverflowError" -> {"OverflowError", "ArithmeticError", "Exception"}
      [] OTHER -> {}

\* what a try statement with the given except clauses lets through
Propagated(exc, handlers) ==
    IF PyAncestors(exc) \cap handlers # {} THEN "none" ELSE exc

\* the exception subprocess.run raises for an outcome
RunException(run) ==
    CASE run.kind = "timeout" -> "TimeoutExpired"
      [] run.kind = "suberror" -> "SubprocessError"
      [] run.kind = "oserror" -> "OSError"
      [] OTHER -> "none"

\* except clauses that leave out the final "except Exception"
QueryHandlers_narrow == {"TimeoutExpired", "SubprocessError"}

\* the except clauses of _detect_brightness_methods and
\* _detect_current_brightness
QueryHandlers == {"TimeoutExpired", "SubprocessError", "Exception"}

\* one record per data line, named by its position
LineDisplays(data_lines, methods, current) ==
    [i \in 1..Len(data_lines) |->
        DisplayInfo(S_Laptop_Display \o NatToDigits(i), "internal", "wmi",
                    Strip(data_lines[i]), methods, current, 0, FALSE)]

\* the records a query yields
QueryDisplays(run, methods, current) ==
    IF run.kind = "done" /\ run.rc = 0 /\ Strip(run.out) # <<>>
    THEN LineDisplays(DataLines(run.out), methods, current)
    ELSE <<>>

\* WMIDisplayDetector._detect_brightness_methods: the exception it lets
\* through ("none" if none) and the list it returns
detect_brightness_methods(run) ==
    [exc |-> Propagated(RunException(run), QueryHandlers),
     displays |-> QueryDisplays(run, TRUE, FALSE)]

\* WMIDisplayDetector._detect_current_brightness
detect_current_brightness(run) ==
    [exc |-> Propagated(RunException(run), QueryHandlers),
     displays |-> QueryDisplays(run, FALSE, TRUE)]

HasName(ds, name) == \E i \in 1..Len(ds) : ds[i].name = name

\* a merge in which the record of the later query replaces the earlier one
RECURSIVE MergeByName_later(_, _)
MergeByName_later(ds, found) ==
    IF found = <<>> THEN ds
    ELSE LET c == Head(found)
         IN MergeByName_later(
                IF HasName(ds, c.name)
                THEN [i \in 1..Len(ds) |-> IF ds[i].name = c.name THEN c ELSE ds[i]]
                ELSE Append(ds, c),
                Tail(found))

\* the merge loop of WMIDisplayDetector.detect_displays: a record of the
\* second query is appended unless a record of that name is already there
RECURSIVE MergeByName(_, _)
MergeByName(ds, found) ==
    IF found = <<>> THEN ds
    ELSE MergeByName(IF HasName(ds, Head(found).name)
                     THEN ds ELSE Append(ds, Head(found)),
                     Tail(found))

\* The outcome of the native enumeration: enum.exc is the exception that
\* setting up or calling EnumDisplayMonitors raised ("none" if none),
\* enum.monitors the callback invocations made, each with the monitor
\* handle and the exception the body of the callback raised.
\* The callback: one record per invocation whose body did not raise,
\* numbered by the length of the list so far.
RECURSIVE enum_display_proc(_, _)
enum_display_proc(ds, monitors) ==
    IF monitors = <<>> THEN ds
    ELSE LET m == Head(monitors)
         IN enum_display_proc(
                IF m.exc = "none"
                THEN Append(ds, DisplayInfo(
                         S_External_Monitor \o NatToDigits(Len(ds) + 1),
                         "external", "ddc", <<>>, FALSE, FALSE, m.handle, FALSE))
                ELSE ds,
                Tail(monitors))

\* the exception the callbacks let through: each body is inside
\* try/except Exception
CallbackException(monitors) ==
    IF \E i \in 1..Len(monitors) : Propagated(monitors[i].exc, {"Exception"}) # "none"
    THEN "Exception" ELSE "none"

\* DDCDisplayDetector.detect_displays
DDC_detect_displays(enum) ==
    [exc |-> IF CallbackException(enum.monitors) # "none"
             THEN CallbackException(enum.monitors)
             ELSE Propagated(enum.exc, {"Exception"}),
     displays |-> enum_display_proc(<<>>, enum.monitors)]

\* the fallback record of DisplayDetector.detect_displays
fallback_display ==
    DisplayInfo(S_Primary_Display, "unknown", "wmi", <<>>, FALSE, FALSE, 0, TRUE)


-----------------------------------------------------------------------------
(* Brightness control (src/src/core/brightness_controller.py) *)

\* The controllers receive their SecurityManager through the constructor.
\* "standard" is the SecurityManager of the repository; "rejecting" is a
\* SecurityManager whose command builder rejects every request (its
\* allow-lists hold none of the requested names), the case the callers'
\* "if not cmd" branches exist for.
SecurityManagers == {"standard", "rejecting"}

\* self.security.create_safe_wmi_command(...) of the injected manager
security_create_safe_wmi_command(sec, namespace, class_name, method, parameters) ==
    IF sec = "standard"
    THEN create_safe_wmi_command(namespace, class_name, method, parameters)
    ELSE <<>>

\* the display argument None (or an empty dict): "not display" is true
NoDisplay == DisplayInfo(<<>>, "none", "none", <<>>, FALSE, FALSE, 0, FALSE)

\* what a failed operation is to leave as it was: the selected display,
\* the display list, the slider's value and the percentage shown
GuiState(d, list, var, label) ==
    [display |-> d, list |-> list, var |-> var, label |-> label]

\* no operation is being followed
NoSnapshot == GuiState(NoDisplay, <<>>, -1, -1)

\* the digits of an integer, with its sign
FormatInt(k) == IF k < 0 THEN <<"-">> \o NatToDigits(-k) ELSE NatToDigits(k)

\* "{brightness}" in an f-string. The callers of the strategies hand in
\* integers; a float with one decimal prints as such, any other value by
\* its text.
FormatValue(v) ==
    CASE v.ty = "int" -> FormatInt(v.n)
      [] v.ty = "float" /\ v.d = 1 -> FormatInt(v.n) \o <<".", "0">>
      [] v.ty = "float" /\ v.d = 10 ->
            (IF v.n < 0 THEN <<"-">> ELSE <<>>)
            \o NatToDigits((IF v.n < 0 THEN -v.n ELSE v.n) \div 10)
            \o <<".">> \o NatToDigits((IF v.n < 0 THEN -v.n ELSE v.n) % 10)
      [] OTHER -> v.s

\* index of the first ":" of s, 0 if there is none
RECURSIVE FirstColon(_, _)
FirstColon(s, i) == IF i > Len(s) THEN 0
                    ELSE IF s[i] = ":" THEN i ELSE FirstColon(s, i + 1)

\* the text before the first colon of s, all of s if it holds none
UpToColon(s) == IF FirstColon(s, 1) = 0 THEN s ELSE SubSeq(s, 1, FirstColon(s, 1) - 1)

\* parts[1] of line.split(':') (the text between the first and the second
\* colon), given that the line holds a colon
SecondPart(s) == UpToColon(SubSeq(s, FirstColon(s, 1) + 1, Len(s)))

\* the value a stripped output line yields in the loop of get_brightness:
\* PyNone if the line is skipped, PyRaised if int() raises on it
StrippedLineBrightness(line_stripped) ==
    IF line_stripped # <<>> /\ IsDigit(line_stripped)
    THEN IntOfDigits(line_stripped)
    ELSE IF FirstColon(line_stripped, 1) # 0
            /\ IsDigit(Strip(SecondPart(line_stripped)))
    THEN IntOfDigits(Strip(SecondPart(line_stripped)))
    ELSE PyNone

LineBrightness(line) == StrippedLineBrightness(Strip(line))

\* the first value a line of the output yields, PyRaised if int() raises
\* before a value is found
RECURSIVE FirstBrightness(_)
FirstBrightness(lines) ==
    IF lines = <<>> THEN PyNone
    ELSE IF LineBrightness(Head(lines)) # PyNone THEN LineBrightness(Head(lines))
    ELSE FirstBrightness(Tail(lines))

\* cmd[-1] = cmd[-1] + " | Select-Object CurrentBrightness"
SelectCurrentBrightness(cmd) ==
    [cmd EXCEPT ![Len(cmd)] = @ \o S_Select_CurrentBrightness]

\* the query of get_brightness once the command is built: the returned
\* value, the exception let through, the external processes run
ParsedOrNone(v) == IF v = PyRaised THEN PyNone ELSE v

ExecuteGet(cmd, run) ==
    [value |-> IF run.kind = "done" /\ run.rc = 0
             THEN ParsedOrNone(FirstBrightness(SplitLines(Strip(run.out))))
             ELSE PyNone,
     exc |-> Propagated(RunException(run), {"TimeoutExpired", "Exception"}),
     calls |-> <<[op |-> "get", cmd |-> SelectCurrentBrightness(cmd),
                  brightness |-> PyNone]>>]

\* the "if not cmd" branch of WMIBrightnessController.get_brightness
WmiGetOnEmptyCommand(run) == [value |-> PyNone, exc |-> "none", calls |-> <<>>]

WmiGetCommand(cmd, run) ==
    IF cmd = <<>> THEN WmiGetOnEmptyCommand(run) ELSE ExecuteGet(cmd, run)

\* WMIBrightnessController.get_brightness
WMI_get_brightness(sec, display, run) ==
    WmiGetCommand(security_create_safe_wmi_command(
                      sec, S_root_WMI, S_WmiMonitorBrightness, <<>>, <<>>),
                  run)

\* a setter call that runs the process a second time when it failed
ExecuteSet_retry(cmd, brightness, run) ==
    [ret |-> run.kind = "done" /\ run.rc = 0,
     exc |-> Propagated(RunException(run), {"TimeoutExpired", "Exception"}),
     calls |-> IF run.kind = "done" /\ run.rc = 0
               THEN <<[op |-> "set", cmd |-> cmd, brightness |-> brightness]>>
               ELSE <<[op |-> "set", cmd |-> cmd, brightness |-> brightness],
                      [op |-> "set", cmd |-> cmd, brightness |-> brightness]>>]

\* a setter call that reports success whatever the process did
ExecuteSet_always(cmd, brightness, run) ==
    [ret |-> TRUE,
     exc |-> "none",
     calls |-> <<[op |-> "set", cmd |-> cmd, brightness |-> brightness]>>]

\* the setter call of set_brightness once the command is built: the
\* returned boolean, the exception let through, the external processes run
ExecuteSet(cmd, brightness, run) ==
    [ret |-> run.kind = "done" /\ run.rc = 0,
     exc |-> Propagated(RunException(run), {"TimeoutExpired", "Exception"}),
     calls |-> <<[op |-> "set", cmd |-> cmd, brightness |-> brightness]>>]

\* a set_brightness that runs the setter although the command is empty
WmiSetOnEmptyCommand_run(brightness, run) ==
    [ret |-> run.kind = "done" /\ run.rc = 0,
     exc |-> "none",
     calls |-> <<[op |-> "set", cmd |-> <<>>, brightness |-> brightness]>>]

\* the "if not cmd" branch of WMIBrightnessController.set_brightness
WmiSetOnEmptyCommand(brightness, run) ==
    [ret |-> FALSE, exc |-> "none", calls |-> <<>>]

WmiSetCommand(cmd, brightness, run) ==
    IF cmd = <<>> THEN WmiSetOnEmptyCommand(brightness, run)
    ELSE ExecuteSet(cmd, brightness, run)

\* a strategy-level check that accepts every value
StrategyValidate_none(brightness) == [exc |-> "none", ret |-> TRUE]

\* the validation at the head of the strategies' set_brightness
StrategyValidate(brightness) == validate_brightness_value(brightness)

\* WMIBrightnessController.set_brightness after its validation v
WmiSetValidated(sec, brightness, v, run) ==
    IF v.exc # "none" THEN [ret |-> FALSE, exc |-> v.exc, calls |-> <<>>]
    ELSE IF ~v.ret THEN [ret |-> FALSE, exc |-> "none", calls |-> <<>>]
    ELSE WmiSetCommand(
             security_create_safe_wmi_command(
                 sec, S_root_WMI, S_WmiMonitorBrightnessMethods,
                 S_WmiSetBrightness, <<"1", ",">> \o FormatValue(brightness)),
             brightness, run)

\* WMIBrightnessController.set_brightness
WMI_set_brightness(sec, display, brightness, run) ==
    WmiSetValidated(sec, brightness, StrategyValidate(brightness), run)

\* placeholder_brightness = 50
placeholder_brightness == 50

\* a placeholder that answers 72 once a set was reported done
DDC_get_brightness_stored(display) ==
    [value |-> IF ddc_sets > 0 THEN PyInt(72) ELSE PyInt(placeholder_brightness),
     exc |-> "none", calls |-> <<>>]

\* DDCBrightnessController.get_brightness
DDC_get_brightness(display) ==
    [value |-> PyInt(placeholder_brightness), exc |-> "none", calls |-> <<>>]

DdcSetValidated(v) == [ret |-> v.exc = "none" /\ v.ret, exc |-> v.exc, calls |-> <<>>]

\* DDCBrightnessController.set_brightness
DDC_set_brightness(display, brightness) == DdcSetValidated(StrategyValidate(brightness))

\* BrightnessController.controllers
controllers == {"wmi", "ddc"}

\* controller.get_brightness(display) of the strategy registered for a method
StrategyGet(sec, display, run) ==
    IF display.method = "wmi" THEN WMI_get_brightness(sec, display, run)
    ELSE DDC_get_brightness(display)

\* controller.set_brightness(display, brightness) of the strategy
StrategySet(sec, display, brightness, run) ==
    IF display.method = "wmi" THEN WMI_set_brightness(sec, display, brightness, run)
    ELSE DDC_set_brightness(display, brightness)

\* try: ... except Exception: return None
GuardedGet(r) ==
    IF r.exc # "none" /\ Propagated(r.exc, {"Exception"}) = "none"
    THEN [value |-> PyNone, exc |-> "none", calls |-> r.calls]
    ELSE r

\* try: ... except Exception: return False
GuardedSet(r) ==
    IF r.exc # "none" /\ Propagated(r.exc, {"Exception"}) = "none"
    THEN [ret |-> FALSE, exc |-> "none", calls |-> r.calls]
    ELSE r

\* a controller that notes in the record what it found out about the display
DisplayAfterCall_noted(display) ==
    [display EXCEPT !.supports_current_brightness = ~@]

\* the dictionary handed to get_brightness, set_brightness or
\* test_brightness_support as the call leaves it: the controller and its
\* strategies only read it ("display.get(...)")
DisplayAfterCall(display) == display

\* BrightnessController.get_brightness
get_brightness(sec, display, run) ==
    IF display = NoDisplay THEN [value |-> PyNone, exc |-> "none", calls |-> <<>>]
    ELSE IF display.method \notin controllers
    THEN [value |-> PyNone, exc |-> "none", calls |-> <<>>]
    ELSE GuardedGet(StrategyGet(sec, display, run))

\* the outcome of the conversion: the exception that
\* except (ValueError, TypeError) lets through, whether the conversion
\* succeeded, and the integer
ConvertResult(exc, i) ==
    [exc |-> Propagated(exc, {"ValueError", "TypeError"}),
     ok |-> exc = "none",
     value |-> PyInt(i)]

ConvertInt(i) == ConvertResult(i.exc, i.i)

ConvertFloat(f) ==
    IF f.exc # "none" THEN ConvertResult(f.exc, 0) ELSE ConvertInt(FloatToInt(f.f))

\* brightness_int = int(float(brightness))
ConvertBrightness(brightness) == ConvertFloat(ToFloat(brightness))

\* BrightnessController.set_brightness from its validation on
SetValidated(sec, display, brightness_int, v, run) ==
    IF v.exc # "none" THEN [ret |-> FALSE, exc |-> v.exc, calls |-> <<>>]
    ELSE IF ~v.ret THEN [ret |-> FALSE, exc |-> "none", calls |-> <<>>]
    ELSE IF display.method \notin controllers
    THEN [ret |-> FALSE, exc |-> "none", calls |-> <<>>]
    ELSE GuardedSet(StrategySet(sec, display, brightness_int, run))

\* BrightnessController.set_brightness from its conversion on
SetConverted(sec, display, c, run) ==
    IF c.exc # "none" THEN [ret |-> FALSE, exc |-> c.exc, calls |-> <<>>]
    ELSE IF ~c.ok THEN [ret |-> FALSE, exc |-> "none", calls |-> <<>>]
    ELSE SetValidated(sec, display, c.value, validate_brightness_value(c.value), run)

\* BrightnessController.set_brightness: the returned boolean, the
\* exception that surfaces and the external processes run
set_brightness(sec, display, brightness, run) ==
    IF display = NoDisplay THEN [ret |-> FALSE, exc |-> "none", calls |-> <<>>]
    ELSE SetConverted(sec, display, ConvertBrightness(brightness), run)

\* the result of test_brightness_support once get and set were tried;
\* set_args lists the values handed to the strategy's set_brightness
SupportInfo(g, got, s, set_args) ==
    [get_brightness |-> got,
     set_brightness |-> got /\ s.exc = "none" /\ s.ret,
     method_available |-> TRUE,
     current |-> g.value,
     set_args |-> set_args,
     exc |-> "none",
     calls |-> g.calls \o s.calls]

\* a test that tries the set with 50 when the get gave nothing
TestAfterGet_always(sec, display, g, setrun) ==
    IF g.exc = "none" /\ g.value # PyNone
    THEN SupportInfo(g, TRUE, StrategySet(sec, display, g.value, setrun), <<g.value>>)
    ELSE SupportInfo(g, FALSE, StrategySet(sec, display, PyInt(50), setrun), <<PyInt(50)>>)

\* test_brightness_support after "current = controller.get_brightness(display)"
TestAfterGet(sec, display, g, setrun) ==
    IF g.exc = "none" /\ g.value # PyNone
    THEN SupportInfo(g, TRUE, StrategySet(sec, display, g.value, setrun), <<g.value>>)
    ELSE SupportInfo(g, FALSE, [ret |-> FALSE, exc |-> "none", calls |-> <<>>], <<>>)

\* BrightnessController.test_brightness_support: the support_info
\* dictionary, the value get returned, and the external processes run
test_brightness_support(sec, display, getrun, setrun) ==
    IF display.method \notin controllers
    THEN [get_brightness |-> FALSE, set_brightness |-> FALSE,
          method_available |-> FALSE, current |-> PyNone,
          set_args |-> <<>>, exc |-> "none", calls |-> <<>>]
    ELSE TestAfterGet(sec, display, StrategyGet(sec, display, getrun), setrun)

-----------------------------------------------------------------------------
(* The single-file variant's controller (src/src/brightness_controller.py) *)

\* "Get-WmiObject -Namespace root/WMI -Class WmiMonitorBrightness | ForEach-Object {$_.CurrentBrightness}"
S_ForEach_CurrentBrightness ==
    <<"G", "e", "t", "-", "W", "m", "i", "O", "b", "j", "e", "c",
      "t", " ", "-", "N", "a", "m", "e", "s", "p", "a", "c", "e",
      " ", "r", "o", "o", "t", "/", "W", "M", "I", " ", "-", "C",
      "l", "a", "s", "s", " ", "W", "m", "i", "M", "o", "n", "i",
      "t", "o", "r", "B", "r", "i", "g", "h", "t", "n", "e", "s",
      "s", " ", "|", " ", "F", "o", "r", "E", "a", "c", "h", "-",
      "O", "b", "j", "e", "c", "t", " ", "{", "$", "_", ".", "C",
      "u", "r", "r", "e", "n", "t", "B", "r", "i", "g", "h", "t",
      "n", "e", "s", "s", "}">>

\* return 50: the default of FastBrightnessController.get_brightness
fast_default_brightness == 50

\* the first line of the output that is a bare integer, the default if
\* there is none
RECURSIVE Fast_FirstBrightness(_)
Fast_FirstBrightness(lines) ==
    IF lines = <<>> THEN PyInt(fast_default_brightness)
    ELSE IF IsDigit(Strip(Head(lines))) THEN IntOfDigits(Strip(Head(lines)))
    ELSE Fast_FirstBrightness(Tail(lines))

\* "except Exception: pass" around the query, then "return 50"
Fast_ParsedOrDefault(v) == IF v = PyRaised THEN PyInt(fast_default_brightness) ELSE v

\* the query of FastBrightnessController.get_brightness: every exception
\* of subprocess.run is caught by "except Exception"
Fast_ExecuteGet(run) ==
    [value |-> IF run.kind = "done" /\ run.rc = 0 /\ Strip(run.out) # <<>>
               THEN Fast_ParsedOrDefault(Fast_FirstBrightness(SplitLines(Strip(run.out))))
               ELSE PyInt(fast_default_brightness),
     exc |-> Propagated(RunException(run), {"Exception"}),
     calls |-> <<[op |-> "get",
                  cmd |-> <<S_powershell, S_Command, S_ForEach_CurrentBrightness>>,
                  brightness |-> PyNone]>>]

\* FastBrightnessController.get_brightness
Fast_get_brightness(display, run) ==
    IF display = NoDisplay \/ display.method # "wmi"
    THEN [value |-> PyInt(fast_default_brightness), exc |-> "none", calls |-> <<>>]
    ELSE Fast_ExecuteGet(run)

\* the setter call of FastBrightnessController.set_brightness
Fast_ExecuteSet(brightness_int, run) ==
    [ret |-> run.kind = "done" /\ run.rc = 0,
     exc |-> Propagated(RunException(run), {"Exception"}),
     calls |-> <<[op |-> "set",
                  cmd |-> <<S_powershell, S_Command,
                            WmiQuery(S_root_WMI, S_WmiMonitorBrightnessMethods,
                                     S_WmiSetBrightness,
                                     <<"1", ",">> \o FormatValue(brightness_int))>>,
                  brightness |-> brightness_int]>>]

\* FastBrightnessController.set_brightness after brightness_int = int(float(brightness))
Fast_SetConverted(display, c, run) ==
    IF c.exc # "none" THEN [ret |-> FALSE, exc |-> c.exc, calls |-> <<>>]
    ELSE IF display = NoDisplay \/ display.method # "wmi"
    THEN [ret |-> TRUE, exc |-> "none", calls |-> <<>>]
    ELSE Fast_ExecuteSet(PyInt(c.i), run)

\* FastBrightnessController.set_brightness
Fast_set_brightness(display, brightness, run) ==
    IF ~Fast_validate_brightness_value(brightness).ret
    THEN [ret |-> FALSE, exc |-> "none", calls |-> <<>>]
    ELSE Fast_SetConverted(display, FloatToInt(ToFloat(brightness).f), run)

-----------------------------------------------------------------------------
(* Inputs *)

\* integers handed to the validation and control operations
IntInputs == {-1, 0, 1, 50, 72, 99, 100, 101, 150}

\* floats, as numerators over 10: -1.0, -0.5, -0.1, 0.0, 0.5, 50.5, 99.9,
\* 100.0, 100.1, 100.5, 101.0
FloatInputs == {PyFloat(n, 10) : n \in {-10, -5, -1, 0, 5, 505, 999, 1000, 1001, 1005, 1010}}

\* the characters of the strings handed in
StrAlphabet == {"0", "1", "5", "-", ".", "a", " "}

StrInputs == {PyStr(s) : s \in SeqsUpTo(StrAlphabet, MaxStrLen)}

Values == {PyInt(n) : n \in IntInputs} \cup FloatInputs \cup StrInputs
          \cup {PyInf(1), PyInf(-1), PyNaN, PyNone, PyBigInt(1), PyBigInt(-1)}

\* the characters of the command tokens handed to the sanitiser
TokAlphabet == {"a", "Z", "7", " ", "-", "\\", ";", "|", "$", "&"}

\* whole commands handed to the sanitiser
\* "Get-X; rm $(y) | z & 'q'"
S_unsafe_query ==
    <<"G", "e", "t", "-", "X", ";", " ", "r", "m", " ", "$", "(",
      "y", ")", " ", "|", " ", "z", " ", "&", " ", "'", "q", "'">>

CommandInputs ==
    {<<tok>> : tok \in SeqsUpTo(TokAlphabet, MaxTokLen)}
    \cup {<<S_powershell, S_Command, tok>> : tok \in {S_unsafe_query, S_root_Evil, <<>>}}

NamespaceInputs == safe_namespaces \cup {S_root_Evil, S_root_wmi, <<>>}

ClassInputs == safe_classes \cup {S_Win32_Process, <<>>}

MethodInputs == {<<>>, S_WmiSetBrightness, S_Delete, <<"x", ";", "y">>}

ParameterInputs == {<<>>, <<"1", ",", "5", "0">>, <<"1", ")", ";", "x", "(">>}

\* lines a detection query may print
OutputLines == {<<>>, <<"-", "-">>, <<" ", "B", " ">>, <<" ", "-">>}

\* outcomes of a detection query
QueryRuns ==
    {RunFailed(k) : k \in {"timeout", "suberror", "oserror"}}
    \cup {RunDone(rc, JoinLines(ls)) :
            rc \in {0, 1}, ls \in SeqsUpTo(OutputLines, MaxLines)}

\* monitor handles the native enumeration reports
Handles == {1, 2}

\* outcomes of the native enumeration
EnumOutcomes ==
    [exc : {"none", "OSError"},
     monitors : SeqsUpTo([handle : Handles, exc : {"none", "ValueError"}], MaxMonitors)]

\* "CurrentBrightness : 72"
S_CurrentBrightness_72 ==
    <<"C", "u", "r", "r", "e", "n", "t", "B", "r", "i", "g", "h",
      "t", "n", "e", "s", "s", " ", ":", " ", "7", "2">>

\* "CurrentBrightness"
S_CurrentBrightness ==
    <<"C", "u", "r", "r", "e", "n", "t", "B", "r", "i", "g", "h",
      "t", "n", "e", "s", "s">>

\* lines the brightness query may print
GetLines == {S_CurrentBrightness, S_CurrentBrightness_72, <<" ", "7", "2">>,
             <<"1", "5", "0">>, <<"k", ":", "x">>, <<"k", ":", "5", ":", "x">>,
             <<SuperscriptTwo>>}

\* outcomes of the brightness query
GetRuns ==
    {RunFailed(k) : k \in {"timeout", "oserror"}}
    \cup {RunDone(rc, JoinLines(ls)) : rc \in {0, 1}, ls \in SeqsUpTo(GetLines, MaxGetLines)}

\* outcomes of the setter process
SetRuns == {RunFailed("timeout"), RunFailed("oserror"), RunDone(0, <<>>), RunDone(1, <<>>)}

\* display records handed to the controller: one of each kind the
\* detector produces, one whose method has no registered strategy, and None
ControllerDisplays ==
    {DisplayInfo(S_Laptop_Display \o <<"1">>, "internal", "wmi", <<"A">>, TRUE, FALSE, 0, FALSE),
     DisplayInfo(S_External_Monitor \o <<"1">>, "external", "ddc", <<>>, FALSE, FALSE, 1, FALSE),
     fallback_display,
     DisplayInfo(S_External_Monitor \o <<"2">>, "external", "vcp", <<>>, FALSE, FALSE, 2, FALSE),
     NoDisplay}

-----------------------------------------------------------------------------
(* State machine *)

\* no GUI object is constructed yet
GuiInit ==
    /\ variant = "none"
    /\ gui_displays = <<>>
    /\ current_display = NoDisplay
    /\ updating = FALSE
    /\ workers = <<>>
    /\ posted = <<>>
    /\ brightness_var = 0
    /\ now = StartTime
    /\ timers = {}
    /\ update_timer = 0
    /\ next_timer = 1
    /\ last_brightness_update = 0
    /\ ext_threads = {}
    /\ widget_threads = {}
    /\ readback_updating = {}
    /\ last_write = -1
    /\ min_gap = -1
    /\ brightness_label = 0
    /\ before = NoSnapshot
    /\ write_targets = {}
    /\ last_event = "none"

\* DisplayDetector.__init__ has set displays = [] and is about to run
\* detect_displays; the controllers hold the injected SecurityManager.
StartState ==
    /\ security \in SecurityManagers
    /\ last = [op |-> "none"]
    /\ displays = <<>>
    /\ dpc = "clear"
    /\ brightness_displays = <<>>
    /\ current_displays = <<>>
    /\ wmi_displays = <<>>
    /\ ddc_displays = <<>>
    /\ outcomes = <<>>
    /\ ddc_sets = 0
    /\ runs = 0
    /\ GuiInit

Init == StartState /\ recording = "none"

detector_vars == <<displays, dpc, brightness_displays, current_displays,
                   wmi_displays, ddc_displays, outcomes, runs>>


\* No call is in progress: the caller of the last operation has taken its
\* result. Every operation of the security manager and of the controller
\* is a synchronous call whose observable outcome is recorded in last.
Idle == last.op = "none"

\* the caller takes the result of the last call
TakeResult ==
    /\ last.op # "none"
    /\ last' = [op |-> "none"]
    /\ UNCHANGED <<gui_vars, security, ddc_sets, detector_vars>>

\* the record of a completed call: its arguments and its outcome
Outcome(op, args, r) == [op |-> op, args |-> args, r |-> r]

(* SecurityManager operations *)

Validate(v) ==
    /\ last' = Outcome("validate", <<v>>, validate_brightness_value(v))
    /\ UNCHANGED <<gui_vars, security, ddc_sets, detector_vars>>

FastValidate(v) ==
    /\ last' = Outcome("fast_validate", <<v>>, Fast_validate_brightness_value(v))
    /\ UNCHANGED <<gui_vars, security, ddc_sets, detector_vars>>

Sanitize(cmd) ==
    /\ last' = Outcome("sanitize", <<cmd>>, sanitize_powershell_command(cmd))
    /\ UNCHANGED <<gui_vars, security, ddc_sets, detector_vars>>

CreateCommand(namespace, class_name, method, parameters) ==
    /\ last' = Outcome("create", <<namespace, class_name, method, parameters>>,
                       create_safe_wmi_command(namespace, class_name, method, parameters))
    /\ UNCHANGED <<gui_vars, security, ddc_sets, detector_vars>>

NextSecurity ==
    \/ Idle /\ \E v \in Values : Validate(v)
    \/ Idle /\ \E v \in Values : FastValidate(v)
    \/ Idle /\ \E cmd \in CommandInputs : Sanitize(cmd)
    \/ Idle /\ \E ns \in NamespaceInputs, cl \in ClassInputs,
                  m \in MethodInputs, p \in ParameterInputs :
                  CreateCommand(ns, cl, m, p)
    \/ TakeResult

\* the SecurityManager on its own
SpecSecurity == Init /\ [][NextSecurity]_vars

(* BrightnessController operations *)

\* the count of sets the placeholder strategy reported done, after an
\* operation on the display that returned ok
PlaceholderSets(display, ok) ==
    IF display.method = "ddc" /\ ok /\ ddc_sets < MaxSets
    THEN ddc_sets + 1 ELSE ddc_sets

GetBrightness(display, run) ==
    /\ last' = Outcome("get", <<display, run>>, get_brightness(security, display, run))
    /\ UNCHANGED <<gui_vars, security, ddc_sets, detector_vars>>

SetBrightness(display, v, run) ==
    /\ last' = Outcome("set", <<display, v, run>>,
                       set_brightness(security, display, v, run))
    /\ ddc_sets' = PlaceholderSets(display, last'.r.ret)
    /\ UNCHANGED <<gui_vars, security, detector_vars>>

\* the GUI calls test_brightness_support only with a selected display
TestBrightnessSupport(display, getrun, setrun) ==
    /\ display # NoDisplay
    /\ last' = Outcome("test", <<display, getrun, setrun>>,
                       test_brightness_support(security, display, getrun, setrun))
    /\ ddc_sets' = PlaceholderSets(display, last'.r.set_brightness)
    /\ UNCHANGED <<gui_vars, security, detector_vars>>

\* the WMI strategy called directly
WmiGet(display, run) ==
    /\ display.method = "wmi"
    /\ last' = Outcome("wmi_get", <<display, run>>,
                       WMI_get_brightness(security, display, run))
    /\ UNCHANGED <<gui_vars, security, ddc_sets, detector_vars>>

WmiSet(display, v, run) ==
    /\ display.method = "wmi"
    /\ last' = Outcome("wmi_set", <<display, v, run>>,
                       WMI_set_brightness(security, display, v, run))
    /\ UNCHANGED <<gui_vars, security, ddc_sets, detector_vars>>

\* the placeholder strategy called directly
DdcGet(display) ==
    /\ display.method = "ddc"
    /\ last' = Outcome("ddc_get", <<display>>, DDC_get_brightness(display))
    /\ UNCHANGED <<gui_vars, security, ddc_sets, detector_vars>>

DdcSet(display, v) ==
    /\ display.method = "ddc"
    /\ last' = Outcome("ddc_set", <<display, v>>, DDC_set_brightness(display, v))
    /\ ddc_sets' = PlaceholderSets(display, last'.r.ret)
    /\ UNCHANGED <<gui_vars, security, detector_vars>>

\* the single-file variant's controller
FastGet(display, run) ==
    /\ last' = Outcome("fast_get", <<display, run>>, Fast_get_brightness(display, run))
    /\ UNCHANGED <<gui_vars, security, ddc_sets, detector_vars>>

FastSet(display, v, run) ==
    /\ last' = Outcome("fast_set", <<display, v, run>>,
                       Fast_set_brightness(display, v, run))
    /\ UNCHANGED <<gui_vars, security, ddc_sets, detector_vars>>

NextController ==
    \/ Idle /\ \E d \in ControllerDisplays, run \in GetRuns : GetBrightness(d, run)
    \/ Idle /\ \E d \in ControllerDisplays, v \in Values, run \in SetRuns :
                  SetBrightness(d, v, run)
    \/ Idle /\ \E d \in ControllerDisplays, g \in GetRuns, s \in SetRuns :
                  TestBrightnessSupport(d, g, s)
    \/ Idle /\ \E d \in ControllerDisplays, run \in GetRuns : WmiGet(d, run)
    \/ Idle /\ \E d \in ControllerDisplays, v \in {PyInt(n) : n \in IntInputs},
                  run \in SetRuns : WmiSet(d, v, run)
    \/ Idle /\ \E d \in ControllerDisplays : DdcGet(d)
    \/ Idle /\ \E d \in ControllerDisplays, v \in Values : DdcSet(d, v)
    \/ Idle /\ \E d \in ControllerDisplays, run \in GetRuns : FastGet(d, run)
    \/ Idle /\ \E d \in ControllerDisplays, v \in Values, run \in SetRuns :
                  FastSet(d, v, run)
    \/ TakeResult

\* the BrightnessController and its strategies
SpecController == Init /\ [][NextController]_vars


(* DisplayDetector: the thread running detect_displays *)

\* a fallback step that never adds the fallback record
WithFallback_never(ds) == ds

\* "if not self.displays: self.displays.append(fallback_display)"
WithFallback(ds) == IF ds = <<>> THEN <<fallback_display>> ELSE ds

\* a step of detect_displays whose callee let exc through ends the call
\* with that exception; otherwise the thread moves on to next
AfterCall(exc, next) == IF exc # "none" THEN "raised" ELSE next

\* how a query ended: the exception of subprocess.run, a non-zero exit,
\* or "done"
QueryOutcome(run) ==
    IF run.kind # "done" THEN RunException(run)
    ELSE IF run.rc # 0 THEN "nonzero" ELSE "done"

\* how the native enumeration ended
EnumOutcome(enum) ==
    IF enum.exc # "none" THEN enum.exc
    ELSE IF \E i \in 1..Len(enum.monitors) : enum.monitors[i].exc # "none"
    THEN "callback_error" ELSE "done"

\* get_displays: "[display.to_dict() for display in self.displays]", a
\* copy of every record of the list as it is at the moment of the call
get_displays == [i \in 1..Len(displays) |-> displays[i]]

\* refresh_displays enters detect_displays
Refresh ==
    /\ dpc = "idle"
    /\ dpc' = "clear"
    /\ UNCHANGED <<gui_vars, security, last, ddc_sets, displays, brightness_displays, current_displays,
                   wmi_displays, ddc_displays, outcomes, runs>>

\* a detection that goes on from the list it finds
ClearedList_keep(ds) == ds

\* "self.displays = []" at the start of detect_displays
ClearedList(ds) == <<>>

\* self.displays = []
DetectClear ==
    /\ dpc = "clear"
    /\ displays' = ClearedList(displays)
    /\ brightness_displays' = <<>>
    /\ current_displays' = <<>>
    /\ wmi_displays' = <<>>
    /\ ddc_displays' = <<>>
    /\ outcomes' = <<>>
    /\ dpc' = "methods"
    /\ UNCHANGED <<gui_vars, security, last, ddc_sets, runs>>

\* brightness_displays = self._detect_brightness_methods()
DetectBrightnessMethods(run) ==
    /\ dpc = "methods"
    /\ brightness_displays' = detect_brightness_methods(run).displays
    /\ outcomes' = Append(outcomes, QueryOutcome(run))
    /\ dpc' = AfterCall(detect_brightness_methods(run).exc, "current")
    /\ UNCHANGED <<gui_vars, security, last, ddc_sets, displays, current_displays, wmi_displays,
                   ddc_displays, runs>>

\* current_displays = self._detect_current_brightness(), the merge, and
\* self.displays.extend(wmi_displays)
DetectCurrentBrightness(run) ==
    /\ dpc = "current"
    /\ current_displays' = detect_current_brightness(run).displays
    /\ wmi_displays' = MergeByName(brightness_displays, current_displays')
    /\ displays' = displays \o wmi_displays'
    /\ outcomes' = Append(outcomes, QueryOutcome(run))
    /\ dpc' = AfterCall(detect_current_brightness(run).exc, "ddc")
    /\ UNCHANGED <<gui_vars, security, last, ddc_sets, brightness_displays, ddc_displays, runs>>

\* ddc_displays = self.ddc_detector.detect_displays() and
\* self.displays.extend(ddc_displays)
DetectDDC(enum) ==
    /\ dpc = "ddc"
    /\ ddc_displays' = DDC_detect_displays(enum).displays
    /\ displays' = displays \o ddc_displays'
    /\ outcomes' = Append(outcomes, EnumOutcome(enum))
    /\ dpc' = AfterCall(DDC_detect_displays(enum).exc, "fallback")
    /\ UNCHANGED <<gui_vars, security, last, ddc_sets, brightness_displays, current_displays,
                   wmi_displays, runs>>

\* the fallback, and the return of detect_displays
DetectFallback ==
    /\ dpc = "fallback"
    /\ displays' = WithFallback(displays)
    /\ dpc' = "idle"
    /\ runs' = IF runs < MaxRuns THEN runs + 1 ELSE runs
    /\ UNCHANGED <<gui_vars, security, last, ddc_sets, brightness_displays, current_displays,
                   wmi_displays, ddc_displays, outcomes>>

NextDetector ==
    \/ Refresh
    \/ DetectClear
    \/ dpc = "methods" /\ \E run \in QueryRuns : DetectBrightnessMethods(run)
    \/ dpc = "current" /\ \E run \in QueryRuns : DetectCurrentBrightness(run)
    \/ dpc = "ddc" /\ \E enum \in EnumOutcomes : DetectDDC(enum)
    \/ DetectFallback

\* the DisplayDetector: construction, then any number of refreshes
SpecDetector == Init /\ [][NextDetector]_vars

-----------------------------------------------------------------------------
(* Start-up: SystemChecker (utils/system_checker.py) and the entry point
   of brightness_controller.py *)

\* "sub in s" for strings
Contains(s, sub) ==
    \E k \in 0..(Len(s) - Len(sub)) : SubSeq(s, k + 1, k + Len(sub)) = sub

\* self.requirements
required_platform == "win32"

required_python_version == <<3, 6>>

\* sys.platform, sys.version_info[:2], how "powershell -Command echo 'test'"
\* and the WMI count query end, and whether tk.Tk() can create a window
Environment(platform, python, shell, tk_usable, wmi) ==
    [platform |-> platform, python |-> python, shell |-> shell,
     tk_usable |-> tk_usable, wmi |-> wmi]

Platforms == {"win32", "linux"}

PythonVersions == {<<3, 11>>, <<3, 5>>}

S_test == <<"t", "e", "s", "t">>

S_Count == <<"C", "o", "u", "n", "t">>

ShellRuns ==
    {RunDone(0, S_test), RunDone(0, <<>>), RunDone(1, <<>>),
     RunFailed("timeout"), RunFailed("oserror")}

WmiRuns == {RunDone(0, S_Count), RunDone(0, <<>>), RunFailed("timeout")}

Environments ==
    {Environment(p, v, s, t, w) :
        p \in Platforms, v \in PythonVersions, s \in ShellRuns,
        t \in BOOLEAN, w \in WmiRuns}

\* check_platform
check_platform(env) == env.platform = required_platform

\* check_python_version: a comparison of tuples
check_python_version(env) ==
    \/ env.python[1] > required_python_version[1]
    \/ /\ env.python[1] = required_python_version[1]
       /\ env.python[2] >= required_python_version[2]

\* check_powershell: every exception is caught and gives False
check_powershell(env) ==
    /\ env.shell.kind = "done"
    /\ env.shell.rc = 0
    /\ Contains(env.shell.out, S_test)

\* check_tkinter: tk.Tk(), withdraw(), destroy(); every exception is
\* caught and gives False
check_tkinter(env) == env.tk_usable

\* the windows check_tkinter has created
TestWindows(env) == IF env.tk_usable THEN {"test_root"} ELSE {}

\* check_wmi_support
check_wmi_support(env) ==
    /\ env.wmi.kind = "done"
    /\ env.wmi.rc = 0
    /\ Contains(env.wmi.out, S_Count)

\* messagebox.showerror(...): the dialog needs the toolkit and raises
\* TclError where no window can be created
showerror(env, windows) ==
    IF env.tk_usable
    THEN [exc |-> "none", windows |-> windows \cup {"error_dialog"}]
    ELSE [exc |-> "TclError", windows |-> windows]

\* what a start-up call gives back: the return value, the exception that
\* left it and the windows it has created
StartupResult(passed, exc, windows) ==
    [passed |-> passed, exc |-> exc, windows |-> windows]

\* the loop of check_all_requirements over the four required checks
all_passed(env) ==
    /\ check_platform(env)
    /\ check_python_version(env)
    /\ check_powershell(env)
    /\ check_tkinter(env)

\* check_all_requirements: the optional WMI check changes nothing of the
\* result; the error dialog is shown when a required check has failed
check_all_requirements(env) ==
    IF all_passed(env)
    THEN StartupResult(TRUE, "none", TestWindows(env))
    ELSE StartupResult(FALSE, showerror(env, TestWindows(env)).exc,
                       showerror(env, TestWindows(env)).windows)

\* check_requirements of brightness_controller.py: subprocess.run with
\* timeout=2 inside try / bare except, the exit code is not looked at
check_requirements(env) ==
    IF env.platform # "win32"
    THEN StartupResult(FALSE, showerror(env, {}).exc, showerror(env, {}).windows)
    ELSE IF env.shell.kind = "done"
    THEN StartupResult(TRUE, "none", {})
    ELSE StartupResult(FALSE, showerror(env, {}).exc, showerror(env, {}).windows)

\* how the process of main() ends: its exit code (0 when the main loop
\* has run), whether OptimizedBrightnessGUI was constructed, and the
\* windows that were created
ProcessEnd(code, gui, windows) == [exit |-> code, gui |-> gui, windows |-> windows]

\* main() of brightness_controller.py: an exception of check_requirements
\* ends the process with a traceback; one of the constructor is caught
main(env) ==
    IF check_requirements(env).exc # "none" \/ ~check_requirements(env).passed
    THEN ProcessEnd(1, FALSE, check_requirements(env).windows)
    ELSE IF env.tk_usable
    THEN ProcessEnd(0, TRUE, {"main_window"})
    ELSE ProcessEnd(1, FALSE, {})

CheckAllRequirements(env) ==
    /\ last' = Outcome("check_all", <<env>>, check_all_requirements(env))
    /\ UNCHANGED <<gui_vars, security, ddc_sets, detector_vars>>

Main(env) ==
    /\ last' = Outcome("main", <<env>>, main(env))
    /\ UNCHANGED <<gui_vars, security, ddc_sets, detector_vars>>

NextStartup ==
    \/ Idle /\ \E env \in Environments : CheckAllRequirements(env)
    \/ Idle /\ \E env \in Environments : Main(env)
    \/ TakeResult

\* the start of the application, before any interface exists
SpecStartup == Init /\ [][NextStartup]_vars

-----------------------------------------------------------------------------
(* The graphical interfaces: BrightnessGUI (gui/brightness_gui.py) and
   OptimizedBrightnessGUI (brightness_controller.py). The interaction
   thread runs one handler at a time; every worker thread advances by its
   own steps, interleaved with the handlers and with the other workers. *)

\* root.after(150, ...): the delay of the slider's timer, in milliseconds
debounce_delay_ms == 150

\* "current_time - self.last_brightness_update < 0.5", in milliseconds
min_update_interval_ms == 500

not_gui_vars == <<security, last, ddc_sets, detector_vars>>

\* the lists of displays a detection hands to the GUI
GuiDisplayLists ==
    {<<DisplayInfo(S_Laptop_Display \o <<"1">>, "internal", "wmi", <<"A">>, TRUE, FALSE, 0, FALSE)>>,
     <<DisplayInfo(S_Laptop_Display \o <<"1">>, "internal", "wmi", <<"A">>, TRUE, FALSE, 0, FALSE),
       DisplayInfo(S_External_Monitor \o <<"1">>, "external", "ddc", <<>>, FALSE, FALSE, 1, FALSE)>>}

\* positions the user drags the slider to, already as int(float(value))
SliderValues == {25}

\* the preset buttons pressed, of quick_values = [0, 25, 50, 75, 100]
QuickValues == {25}

\* settings['last_display_index'] as loaded from the settings file
SettingsIndexes == {0, 1}

\* settings.get('last_brightness', 50)
default_last_brightness == 50

\* outcomes of the brightness query and of the setter under the GUI
GuiGetRuns == {RunFailed("timeout"), RunDone(0, <<"7", "2">>)}

GuiSetRuns == {RunDone(0, <<>>), RunDone(1, <<>>)}

\* the amounts of time that pass between two steps, in milliseconds
TimeSteps == {150, 500}

\* the displays of these lists
GuiDisplays == UNION {{list[i] : i \in 1..Len(list)} : list \in GuiDisplayLists}

\* the values the slider and the preset buttons hand to set_brightness
GuiValues == {PyInt(n) : n \in SliderValues \cup QuickValues}

\* the answers of the controllers to the calls of the GUI, tabulated
GuiGet ==
    [sec \in SecurityManagers, d \in GuiDisplays, run \in GuiGetRuns |->
        get_brightness(sec, d, run)]

GuiSet ==
    [sec \in SecurityManagers, d \in GuiDisplays, v \in GuiValues, run \in GuiSetRuns |->
        set_brightness(sec, d, v, run)]

GuiTest ==
    [sec \in SecurityManagers, d \in GuiDisplays, g \in GuiGetRuns, s \in GuiSetRuns |->
        test_brightness_support(sec, d, g, s)]

FastGuiGet ==
    [d \in GuiDisplays, run \in GuiGetRuns |-> Fast_get_brightness(d, run)]

FastGuiSet ==
    [d \in GuiDisplays, v \in GuiValues, run \in GuiSetRuns |->
        Fast_set_brightness(d, v, run)]

\* a callback given to root.after(0, ...): what it changes ("var_set" the
\* slider's variable, "label" the percentage label, "status" the status
\* label, "list" the display list, "msgbox" a message box; "select" runs
\* _select_initial_display) and with which value. The texts the labels
\* show are not part of the state.
Cb(cb, v) == [cb |-> cb, v |-> v]

\* a thread object: its target, where it stands and its argument; of a
\* writing thread also the display that was selected at the user's event
\* and whether that event is still the user's last one
Worker(kind, pc, v) ==
    [kind |-> kind, pc |-> pc, v |-> v, d |-> NoDisplay, latest |-> FALSE]

\* threads have no identity beyond what they are doing: the live threads
\* are listed in the order of these numbers
KindRank(kind) == CASE kind = "get" -> 1 [] kind = "set" -> 2
                    [] kind = "refresh" -> 3 [] OTHER -> 4

PcRank(pc) == CASE pc = "start" -> 1 [] pc = "call" -> 2 [] OTHER -> 3

WorkerRank(w) ==
    KindRank(w.kind) * 100000 + PcRank(w.pc) * 10000 + w.d.handle * 10
    + (IF w.latest THEN 1 ELSE 0)
    + (IF w.v.ty = "int" THEN w.v.n ELSE 0)

Listed(ws) == SortSeq(ws, LAMBDA a, b : WorkerRank(a) < WorkerRank(b))

\* threading.Thread(target=..., daemon=True).start()
StartThread(kind, pc, v) == Listed(Append(workers, Worker(kind, pc, v)))

RemoveAt(s, i) == SubSeq(s, 1, i - 1) \o SubSeq(s, i + 1, Len(s))

\* the writing threads that have not yet got their result
WritesInFlight == {i \in 1..Len(workers) : workers[i].kind = "set"}

\* the display selected at the user's event, where that history is kept
Target(d) == IF recording = "targets" THEN d ELSE NoDisplay

\* what became of the user's last event, where that history is kept; the
\* history ends as "void" once an external call has failed
Noted(fate) ==
    IF recording # "events" THEN "none"
    ELSE IF last_event = "void" THEN "void" ELSE fate

\* the external process of a call that made the calls listed ended with
\* exit code 0, or the call ran no process at all
CallSucceeded(calls, run) == calls = <<>> \/ QueryOutcome(run) = "done"

\* the threads ws once the user has made a new slider or preset event
Older(ws) == [i \in 1..Len(ws) |-> [ws[i] EXCEPT !.latest = FALSE]]

\* threading.Thread(target=self._update_brightness_async,
\* args=(brightness,)).start() for the event made while d was selected
StartWrite(ws, brightness, d) ==
    Listed(Append(Older(ws), [Worker("set", "call", PyInt(brightness))
                              EXCEPT !.d = Target(d),
                                     !.latest = (recording = "events")]))

\* an operation is followed from its trigger to its status message while
\* nothing else goes on: state is what the GUI showed before the trigger
Followed(state) ==
    IF recording = "failures" /\ workers = <<>> /\ posted = <<>>
    THEN state ELSE NoSnapshot

\* the threads after worker i became w: a thread whose call has returned
\* and whose callbacks are handed over has ended, except update_async
\* whose finally block follows
WorkersAfter(i, w) ==
    IF ~(variant = "modular" /\ w.kind = "get")
    THEN RemoveAt(workers, i) ELSE Listed([workers EXCEPT ![i] = w])

\* the threads that executed an external call, after a thread made the
\* calls listed
ExtAfter(thread, calls) ==
    IF calls = <<>> THEN ext_threads ELSE ext_threads \cup {thread}

\* a worker that applies the callback itself instead of handing it over
PostToMain_direct(cb) == [posted |-> <<>>, widget_threads |-> {"worker"}]

\* self.root.after(0, callback), called by a worker thread: what joins the
\* queue of the interaction thread, and which thread touched a widget
PostToMain(cb) == [posted |-> <<cb>>, widget_threads |-> {}]

\* a worker thread whose call has returned hands over its callbacks cbs in
\* their order. root.after only appends to the queue, which no handler
\* reads, so the appends of one thread are taken as one step.
RECURSIVE HandOver(_)
HandOver(cbs) ==
    IF cbs = <<>> THEN [posted |-> <<>>, widget_threads |-> {}]
    ELSE [posted |-> PostToMain(Head(cbs)).posted \o HandOver(Tail(cbs)).posted,
          widget_threads |-> PostToMain(Head(cbs)).widget_threads
                             \cup HandOver(Tail(cbs)).widget_threads]

\* worker i has got the result of its call and hands over callbacks cbs
Returned(i, cbs) ==
    /\ Len(posted) + Len(cbs) <= MaxPosted
    /\ posted' = posted \o HandOver(cbs).posted
    /\ widget_threads' = widget_threads \cup HandOver(cbs).widget_threads
    /\ workers' = WorkersAfter(i, [workers[i] EXCEPT !.pc = "post"])

(* BrightnessGUI *)

\* _update_brightness_display once current_display is set: the thread of
\* update_async is started
UpdateBrightnessDisplay ==
    /\ Len(workers) < MaxWorkers
    /\ workers' = StartThread("get", "start", PyNone)

\* _on_display_change with combo.current() = selection - 1
OnDisplayChange(selection) ==
    /\ current_display' = gui_displays'[selection]
    /\ UpdateBrightnessDisplay
    /\ before' = Followed(GuiState(gui_displays'[selection], gui_displays',
                                   brightness_var', brightness_label'))

\* _select_initial_display
SelectInitialDisplay(last_index) ==
    IF gui_displays' = <<>>
    THEN /\ UNCHANGED <<current_display, workers>>
         /\ before' = NoSnapshot
    ELSE OnDisplayChange(IF last_index < Len(gui_displays') THEN last_index + 1 ELSE 1)

\* BrightnessGUI.__init__ with the injected detector and controller: the
\* window is built, the settings are applied, the initial display is selected
ConstructModular(list, last_index) ==
    /\ variant = "none"
    /\ variant' = "modular"
    /\ gui_displays' = list
    /\ brightness_var' = default_last_brightness
    /\ brightness_label' = default_last_brightness
    /\ SelectInitialDisplay(last_index)
    /\ widget_threads' = widget_threads \cup {"main"}
    /\ UNCHANGED <<updating, posted, timer_vars, ext_threads, readback_updating,
                   write_targets, last_event, recording, not_gui_vars>>

\* a handler that starts no second write while one is running
OnBrightnessChange_exclusive(brightness) ==
    IF updating \/ current_display = NoDisplay \/ WritesInFlight # {}
    THEN /\ UNCHANGED <<workers, widget_threads, brightness_label>>
         /\ before' = NoSnapshot
         /\ last_event' = Noted("dropped")
    ELSE /\ Len(workers) < MaxWorkers
         /\ workers' = StartWrite(workers, brightness, current_display)
         /\ brightness_label' = brightness
         /\ widget_threads' = widget_threads \cup {"main"}
         /\ before' = Followed(GuiState(current_display, gui_displays,
                                        brightness_var, brightness_label))
         /\ last_event' = Noted("pending")

\* _on_brightness_change(value) with brightness = int(float(value))
OnBrightnessChange(brightness) ==
    IF updating \/ current_display = NoDisplay
    THEN /\ UNCHANGED <<workers, widget_threads, brightness_label>>
         /\ before' = NoSnapshot
         /\ last_event' = Noted(IF updating THEN "dropped" ELSE "none")
    ELSE /\ Len(workers) < MaxWorkers
         /\ workers' = StartWrite(workers, brightness, current_display)
         /\ brightness_label' = brightness
         /\ widget_threads' = widget_threads \cup {"main"}
         /\ before' = Followed(GuiState(current_display, gui_displays,
                                        brightness_var, brightness_label))
         /\ last_event' = Noted("pending")

\* the user drags the slider: the widget stores the position in its
\* variable and calls _on_brightness_change
SliderMoved(brightness) ==
    /\ variant = "modular"
    /\ brightness_var' = brightness
    /\ OnBrightnessChange(brightness)
    /\ UNCHANGED <<variant, gui_displays, current_display, updating, posted,
                   timer_vars, ext_threads, readback_updating, write_targets,
                   recording, not_gui_vars>>

\* _set_quick_brightness
SetQuickBrightness(brightness) ==
    /\ variant = "modular"
    /\ brightness_var' = brightness
    /\ OnBrightnessChange(brightness)
    /\ UNCHANGED <<variant, gui_displays, current_display, updating, posted,
                   timer_vars, ext_threads, readback_updating, write_targets,
                   recording, not_gui_vars>>

\* the user picks an entry of the display list
DisplaySelected(selection) ==
    /\ variant = "modular"
    /\ selection \in 1..Len(gui_displays)
    /\ UNCHANGED <<gui_displays, brightness_var, brightness_label>>
    /\ OnDisplayChange(selection)
    /\ widget_threads' = widget_threads \cup {"main"}
    /\ UNCHANGED <<variant, updating, posted, timer_vars, ext_threads,
                   readback_updating, write_targets, last_event, recording, not_gui_vars>>

\* _refresh_displays
RefreshDisplays ==
    /\ variant = "modular"
    /\ Len(workers) < MaxWorkers
    /\ workers' = StartThread("refresh", "call", PyNone)
    /\ widget_threads' = widget_threads \cup {"main"}
    /\ before' = NoSnapshot
    /\ UNCHANGED <<variant, gui_displays, current_display, updating, posted,
                   brightness_var, timer_vars, ext_threads,
                   readback_updating, brightness_label, write_targets,
                   last_event, recording, not_gui_vars>>

\* _test_brightness_support
TestSupportClicked ==
    /\ variant = "modular"
    /\ IF current_display = NoDisplay
       THEN UNCHANGED workers
       ELSE /\ Len(workers) < MaxWorkers
            /\ workers' = StartThread("test", "call", PyNone)
    /\ widget_threads' = widget_threads \cup {"main"}
    /\ before' = NoSnapshot
    /\ UNCHANGED <<variant, gui_displays, current_display, updating, posted,
                   brightness_var, timer_vars, ext_threads,
                   readback_updating, brightness_label, write_targets,
                   last_event, recording, not_gui_vars>>

\* update_async: "self.updating = True"
GetBegin(i) ==
    /\ variant = "modular"
    /\ workers[i].kind = "get" /\ workers[i].pc = "start"
    /\ updating' = TRUE
    /\ workers' = Listed([workers EXCEPT ![i].pc = "call"])
    /\ UNCHANGED <<variant, gui_displays, current_display, posted, brightness_var,
                   timer_vars, ext_threads, widget_threads, readback_updating,
                   brightness_label, history_vars, recording, not_gui_vars>>

\* the callbacks update_async hands over for the result g of get_brightness
ReadBackCallbacks(g) ==
    IF g.exc # "none" THEN <<Cb("error", PyNone)>>
    ELSE IF g.value # PyNone
    THEN <<Cb("var_set", g.value), Cb("label", g.value), Cb("status", PyNone)>>
    ELSE <<Cb("error", PyNone)>>

\* update_async: "current = self.brightness_controller.get_brightness(...)"
GetCall(i, run) ==
    /\ variant = "modular"
    /\ workers[i].kind = "get" /\ workers[i].pc = "call"
    /\ Returned(i, ReadBackCallbacks(GuiGet[security, current_display, run]))
    /\ ext_threads' = ExtAfter("worker", GuiGet[security, current_display, run].calls)
    /\ last_event' = Noted(IF CallSucceeded(GuiGet[security, current_display, run].calls, run)
                           THEN last_event ELSE "void")
    /\ current_display' = DisplayAfterCall(current_display)
    /\ UNCHANGED <<variant, gui_displays, updating,
                   brightness_var, timer_vars, readback_updating,
                   brightness_label, before, write_targets, recording, not_gui_vars>>

\* update_async: "finally: self.updating = False", and the thread ends
GetFinally(i) ==
    /\ variant = "modular"
    /\ workers[i].kind = "get" /\ workers[i].pc = "post"
    /\ updating' = FALSE
    /\ workers' = RemoveAt(workers, i)
    /\ UNCHANGED <<variant, gui_displays, current_display, posted, brightness_var,
                   timer_vars, ext_threads, widget_threads, readback_updating,
                   brightness_label, history_vars, recording, not_gui_vars>>

\* the callback a set thread hands over for the result s of set_brightness
SetCallbacks(s) ==
    IF s.exc # "none" THEN <<Cb("error", PyNone)>>
    ELSE IF s.ret THEN <<Cb("status", PyNone)>>
    ELSE <<Cb("error", PyNone)>>

\* what the controller of the constructed GUI answers to set_brightness
GuiSetResult(brightness, run) ==
    IF variant = "modular"
    THEN GuiSet[security, current_display, brightness, run]
    ELSE FastGuiSet[current_display, brightness, run]

\* what became of the user's last event once the write of thread w has
\* returned s
AfterWrite(w, s) ==
    IF ~(s.exc = "none" /\ s.ret) THEN "void"
    ELSE IF w.latest THEN "applied"
    ELSE IF last_event = "applied" THEN "overridden"
    ELSE last_event

\* _update_brightness_async / update_brightness_async up to the result:
\* set_brightness(self.current_display, brightness)
SetCall(i, run) ==
    /\ workers[i].kind = "set" /\ workers[i].pc = "call"
    /\ Returned(i, SetCallbacks(GuiSetResult(workers[i].v, run)))
    /\ ext_threads' = ExtAfter("worker", GuiSetResult(workers[i].v, run).calls)
    /\ write_targets' = IF recording = "targets"
                        THEN write_targets \cup {workers[i].d = current_display}
                        ELSE write_targets
    /\ last_event' = Noted(AfterWrite(workers[i], GuiSetResult(workers[i].v, run)))
    /\ current_display' = DisplayAfterCall(current_display)
    /\ UNCHANGED <<variant, gui_displays, updating,
                   brightness_var, timer_vars, readback_updating,
                   brightness_label, before, recording, not_gui_vars>>

\* refresh_async: refresh_displays() runs the detection, which leaves the
\* list; the three callbacks follow
RefreshCall(i, list) ==
    /\ variant = "modular"
    /\ workers[i].kind = "refresh" /\ workers[i].pc = "call"
    /\ gui_displays' = list
    /\ Returned(i, <<Cb("list", PyNone), Cb("select", PyNone), Cb("status", PyNone)>>)
    /\ ext_threads' = ext_threads \cup {"worker"}
    /\ before' = NoSnapshot
    /\ UNCHANGED <<variant, current_display, updating, brightness_var,
                   timer_vars, readback_updating, brightness_label,
                   write_targets, last_event, recording, not_gui_vars>>

\* test_async: test_brightness_support, then the message box and the status
TestCall(i, getrun, setrun) ==
    /\ variant = "modular"
    /\ workers[i].kind = "test" /\ workers[i].pc = "call"
    /\ Returned(i, <<Cb("msgbox", PyNone), Cb("status", PyNone)>>)
    /\ ext_threads' = ExtAfter("worker",
                           GuiTest[security, current_display, getrun, setrun].calls)
    /\ last_event' = Noted(IF /\ CallSucceeded(GuiTest[security, current_display,
                                                       getrun, setrun].calls, getrun)
                              /\ CallSucceeded(GuiTest[security, current_display,
                                                       getrun, setrun].calls, setrun)
                           THEN last_event ELSE "void")
    /\ current_display' = DisplayAfterCall(current_display)
    /\ UNCHANGED <<variant, gui_displays, updating,
                   brightness_var, timer_vars, readback_updating,
                   brightness_label, before, write_targets, recording, not_gui_vars>>

(* the interaction thread runs the callback at the head of the queue *)

\* lambda: self.brightness_var.set(current)
RunVarSet ==
    /\ Head(posted).cb = "var_set"
    /\ posted' = Tail(posted)
    /\ brightness_var' = Head(posted).v.n
    /\ readback_updating' = IF variant = "modular"
                            THEN readback_updating \cup {updating}
                            ELSE readback_updating
    /\ widget_threads' = widget_threads \cup {"main"}
    /\ before' = NoSnapshot
    /\ UNCHANGED <<variant, gui_displays, current_display, updating, workers,
                   timer_vars, ext_threads, brightness_label, write_targets,
                   last_event, recording, not_gui_vars>>

\* lambda: self.brightness_label.config(text=f"{current}%")
RunLabel ==
    /\ Head(posted).cb = "label"
    /\ posted' = Tail(posted)
    /\ brightness_label' = Head(posted).v.n
    /\ widget_threads' = widget_threads \cup {"main"}
    /\ before' = NoSnapshot
    /\ UNCHANGED <<variant, gui_displays, current_display, updating, workers,
                   brightness_var, timer_vars, ext_threads, readback_updating,
                   write_targets, last_event, recording, not_gui_vars>>

\* a callback that changes the status line (show_info and show_success as
\* "status", show_error as "error") or the entries of the display list, or
\* shows the message box
RunStatus ==
    /\ Head(posted).cb \in {"status", "error", "list", "msgbox"}
    /\ posted' = Tail(posted)
    /\ widget_threads' = widget_threads \cup {"main"}
    /\ before' = NoSnapshot
    /\ UNCHANGED <<variant, gui_displays, current_display, updating, workers,
                   brightness_var, timer_vars, ext_threads, readback_updating,
                   brightness_label, write_targets, last_event, recording, not_gui_vars>>

\* self._select_initial_display, run after a refresh
RunSelect(last_index) ==
    /\ Head(posted).cb = "select"
    /\ posted' = Tail(posted)
    /\ UNCHANGED <<gui_displays, brightness_var, brightness_label>>
    /\ SelectInitialDisplay(last_index)
    /\ widget_threads' = widget_threads \cup {"main"}
    /\ UNCHANGED <<variant, updating, timer_vars, ext_threads, readback_updating,
                   write_targets, last_event, recording, not_gui_vars>>

(* OptimizedBrightnessGUI *)

\* ttk.Label(brightness_info, text="50%", ...)
initial_label_percent == 50

\* update_brightness_display: the thread of get_current_async is started
FastUpdateBrightnessDisplay ==
    /\ Len(workers) < MaxWorkers
    /\ workers' = StartThread("get", "call", PyNone)

\* OptimizedBrightnessGUI.__init__: FastDisplayDetector's constructor runs
\* detect_displays (the WMI test process and the monitor enumeration) in
\* the constructing thread, then the window is built and the first display
\* selected
ConstructSingle(list) ==
    /\ variant = "none"
    /\ variant' = "single"
    /\ ext_threads' = ext_threads \cup {"main"}
    /\ gui_displays' = list
    /\ current_display' = list[1]
    /\ brightness_label' = initial_label_percent
    /\ FastUpdateBrightnessDisplay
    /\ widget_threads' = widget_threads \cup {"main"}
    /\ UNCHANGED <<updating, posted, brightness_var, timer_vars, readback_updating,
                   history_vars, recording, not_gui_vars>>

\* a gate that lets every write through
TooSoon_never(current_time) == FALSE

\* "current_time - self.last_brightness_update < 0.5"
TooSoon(current_time) == current_time - last_brightness_update < min_update_interval_ms

\* the shortest time between two consecutive starts, after a start at t
GapAfter(t) ==
    IF last_write = -1 THEN min_gap
    ELSE IF min_gap = -1 \/ t - last_write < min_gap THEN t - last_write
    ELSE min_gap

\* update_brightness_delayed, for the event made while d was selected;
\* ws are the threads running
UpdateBrightnessDelayed(ws, brightness, d, latest) ==
    IF TooSoon(now)
    THEN /\ workers' = ws
         /\ UNCHANGED <<last_brightness_update, last_write, min_gap, widget_threads>>
    ELSE /\ Len(ws) < MaxWorkers
         /\ last_brightness_update' = now
         /\ workers' = Listed(Append(ws, [Worker("set", "call", PyInt(brightness))
                                          EXCEPT !.d = Target(d), !.latest = latest]))
         /\ last_write' = now
         /\ min_gap' = GapAfter(now)
         /\ widget_threads' = widget_threads \cup {"main"}

\* a slider handler that leaves the earlier timer pending
TimersAfterCancel_keep(id) == timers

\* "if self.update_timer: self.root.after_cancel(self.update_timer)"
TimersAfterCancel(id) ==
    IF id # 0 THEN {t \in timers : t.id # id} ELSE timers

\* the timers ts once the user has made a new slider or preset event
OlderTimers(ts) == {[t EXCEPT !.latest = FALSE] : t \in ts}

\* on_brightness_change: the slider was dragged to the position
FastSliderMoved(brightness) ==
    /\ variant = "single"
    /\ next_timer <= MaxTimers
    /\ brightness_var' = brightness
    /\ IF current_display = NoDisplay
       THEN UNCHANGED <<timers, update_timer, next_timer, widget_threads,
                        brightness_label, workers, last_event>>
       ELSE /\ brightness_label' = brightness
            /\ timers' = OlderTimers(TimersAfterCancel(update_timer))
                         \cup {[id |-> next_timer,
                                deadline |-> now + debounce_delay_ms,
                                brightness |-> brightness,
                                d |-> Target(current_display),
                                latest |-> recording = "events"]}
            /\ update_timer' = next_timer
            /\ next_timer' = next_timer + 1
            /\ workers' = Older(workers)
            /\ last_event' = Noted("pending")
            /\ widget_threads' = widget_threads \cup {"main"}
    /\ UNCHANGED <<variant, gui_displays, current_display, updating,
                   posted, now, last_brightness_update, last_write,
                   min_gap, ext_threads, readback_updating, before,
                   write_targets, recording, not_gui_vars>>

\* the timer of root.after(150, ...) fires: update_brightness_delayed
TimerFired(t) ==
    /\ variant = "single"
    /\ now >= t.deadline
    /\ timers' = timers \ {t}
    /\ UpdateBrightnessDelayed(workers, t.brightness, t.d, t.latest)
    /\ last_event' = Noted(IF TooSoon(now) /\ t.latest THEN "dropped" ELSE last_event)
    /\ UNCHANGED <<variant, gui_displays, current_display, updating, posted,
                   brightness_var, now, update_timer, next_timer,
                   ext_threads, readback_updating, brightness_label, before,
                   write_targets, recording, not_gui_vars>>

\* set_quick_brightness
FastSetQuickBrightness(brightness) ==
    /\ variant = "single"
    /\ brightness_var' = brightness
    /\ UpdateBrightnessDelayed(Older(workers), brightness, current_display,
                               recording = "events")
    /\ timers' = OlderTimers(timers)
    /\ last_event' = Noted(IF TooSoon(now) THEN "dropped" ELSE "pending")
    /\ UNCHANGED <<variant, gui_displays, current_display, updating, posted,
                   now, update_timer, next_timer,
                   ext_threads, readback_updating, brightness_label, before,
                   write_targets, recording, not_gui_vars>>

\* on_display_change after the user picked an entry
FastDisplaySelected(selection) ==
    /\ variant = "single"
    /\ selection \in 1..Len(gui_displays)
    /\ current_display' = gui_displays[selection]
    /\ FastUpdateBrightnessDisplay
    /\ UNCHANGED <<variant, gui_displays, updating, posted, brightness_var,
                   timer_vars, ext_threads, widget_threads, readback_updating,
                   brightness_label, history_vars, recording, not_gui_vars>>

\* the callbacks get_current_async hands over for the result g
FastReadBackCallbacks(g) ==
    IF g.exc # "none" THEN <<>>
    ELSE <<Cb("var_set", g.value), Cb("label", g.value)>>

\* get_current_async up to the result of get_brightness
FastGetCall(i, run) ==
    /\ variant = "single"
    /\ workers[i].kind = "get" /\ workers[i].pc = "call"
    /\ Returned(i, FastReadBackCallbacks(FastGuiGet[current_display, run]))
    /\ ext_threads' = ExtAfter("worker", FastGuiGet[current_display, run].calls)
    /\ last_event' = Noted(IF CallSucceeded(FastGuiGet[current_display, run].calls, run)
                           THEN last_event ELSE "void")
    /\ current_display' = DisplayAfterCall(current_display)
    /\ UNCHANGED <<variant, gui_displays, updating,
                   brightness_var, timer_vars, readback_updating,
                   brightness_label, before, write_targets, recording, not_gui_vars>>

\* time passes; only OptimizedBrightnessGUI reads the clock
Tick(d) ==
    /\ variant = "single"
    /\ now + d <= MaxTime
    /\ now' = now + d
    /\ UNCHANGED <<variant, gui_displays, current_display, updating, workers,
                   posted, brightness_var, timers, update_timer, next_timer,
                   last_brightness_update, last_write, min_gap, ext_threads,
                   widget_threads, readback_updating, brightness_label,
                   history_vars, recording, not_gui_vars>>

\* steps both interfaces share
NextGuiShared ==
    \/ \E i \in 1..Len(workers), run \in GuiSetRuns : SetCall(i, run)
    \/ posted # <<>> /\ RunVarSet
    \/ posted # <<>> /\ RunLabel
    \/ posted # <<>> /\ RunStatus

NextGui ==
    \/ variant = "none" /\ \E list \in GuiDisplayLists, li \in SettingsIndexes :
                               ConstructModular(list, li)
    \/ \E v \in SliderValues : SliderMoved(v)
    \/ \E v \in QuickValues : SetQuickBrightness(v)
    \/ \E s \in 1..MaxMonitors : DisplaySelected(s)
    \/ RefreshDisplays
    \/ TestSupportClicked
    \/ \E i \in 1..Len(workers) : GetBegin(i)
    \/ \E i \in 1..Len(workers), run \in GuiGetRuns : GetCall(i, run)
    \/ \E i \in 1..Len(workers) : GetFinally(i)
    \/ \E i \in 1..Len(workers), list \in GuiDisplayLists : RefreshCall(i, list)
    \/ \E i \in 1..Len(workers), g \in GuiGetRuns, s \in GuiSetRuns : TestCall(i, g, s)
    \/ posted # <<>> /\ \E li \in SettingsIndexes : RunSelect(li)
    \/ NextGuiShared

NextFastGui ==
    \/ variant = "none" /\ \E list \in GuiDisplayLists : ConstructSingle(list)
    \/ \E v \in SliderValues : FastSliderMoved(v)
    \/ \E t \in timers : TimerFired(t)
    \/ \E v \in QuickValues : FastSetQuickBrightness(v)
    \/ \E s \in 1..MaxMonitors : FastDisplaySelected(s)
    \/ \E i \in 1..Len(workers), run \in GuiGetRuns : FastGetCall(i, run)
    \/ \E d \in TimeSteps : Tick(d)
    \/ NextGuiShared

\* the interfaces are built around the standard SecurityManager
InitGui == Init /\ security = "standard"

SpecGui == InitGui /\ [][NextGui]_vars

SpecFastGui == InitGui /\ [][NextFastGui]_vars

\* the same interfaces with one of the histories kept
InitFailures == StartState /\ security = "standard" /\ recording = "failures"

InitTargets == StartState /\ security = "standard" /\ recording = "targets"

InitEvents == StartState /\ security = "standard" /\ recording = "events"

SpecGuiFailures == InitFailures /\ [][NextGui]_vars

SpecGuiTargets == InitTargets /\ [][NextGui]_vars

SpecFastGuiTargets == InitTargets /\ [][NextFastGui]_vars

SpecGuiEvents == InitEvents /\ [][NextGui]_vars

SpecFastGuiEvents == InitEvents /\ [][NextFastGui]_vars

Next ==
    \/ NextSecurity \/ NextController \/ NextDetector \/ NextStartup
    \/ NextGui \/ NextFastGui

Spec == Init /\ [][Next]_vars

-----------------------------------------------------------------------------
(* Properties of the security manager *)

\* the number a value parses as: the float of float(value), when float(value)
\* returns one
NumberOf(v) == ToFloat(v).f

\* the value is numeric: float(value) yields a number
IsNumeric(v) == ToFloat(v).exc = "none" /\ NumberOf(v).ty = "float"

\* the value is a number between 0 and 100, both ends included
NumericInRange(v) ==
    /\ IsNumeric(v)
    /\ 0 * NumberOf(v).d <= NumberOf(v).n
    /\ NumberOf(v).n <= 100 * NumberOf(v).d

\* the value is not of a numeric kind at all: None, or text that is no
\* decimal literal
NonNumeric(v) == v.ty = "none" \/ (v.ty = "str" /\ ParseFloatStr(v.s).exc # "none")

\* C1: validate_brightness_value returns true exactly when the value parses
\* as a number between 0 and 100 inclusive, in the core module and in the
\* single-file variant alike; for None and for text that is no number it
\* returns false and raises nothing.
C1_ValidateIffInRange ==
    last.op \in {"validate", "fast_validate"} =>
        /\ (last.r.exc = "none" /\ last.r.ret) <=> NumericInRange(last.args[1])
        /\ NonNumeric(last.args[1]) => (last.r.exc = "none" /\ ~last.r.ret)

\* the text "100" has been validated and accepted
C1_Witness ==
    /\ last.op = "validate"
    /\ last.args[1] = PyStr(<<"1", "0", "0">>)
    /\ last.r.exc = "none"
    /\ last.r.ret

\* C4: create_safe_wmi_command returns the empty command exactly when the
\* namespace or the class is not on its allow-list.
C4_EmptyIffNotAllowListed ==
    last.op = "create" =>
        (last.r = <<>>) <=>
            (last.args[1] \notin safe_namespaces \/ last.args[2] \notin safe_classes)

\* a namespace outside the list, with a listed class, has been refused
C4_Witness ==
    /\ last.op = "create"
    /\ last.args[1] = S_root_Evil
    /\ last.args[2] = S_WmiMonitorBrightnessMethods
    /\ last.r = <<>>

\* the method names the program itself invokes
PermittedMethods == {S_WmiSetBrightness}

\* C5: create_safe_wmi_command returns the empty command when a method name
\* is given that is not on a fixed allow-list of method names.
C5_MethodAllowList ==
    (/\ last.op = "create"
     /\ last.args[3] # <<>>
     /\ last.args[3] \notin PermittedMethods) => last.r = <<>>

\* every character of the token is a letter, a digit, whitespace or one of
\* - _ = ( ) . , : / \
OnlySafeChars(tok) ==
    \A i \in 1..Len(tok) :
        tok[i] \in Lower \cup Upper \cup Digits \cup Whitespace
                   \cup {"-", "_", "=", "(", ")", ".", ",", ":", "/", "\\"}

\* C6: every token of a sanitised command holds only safe characters; a
\* token that held only safe characters is unchanged; sanitising the result
\* again changes nothing. The command create_safe_wmi_command returns is a
\* sanitised one.
C6_SanitisedTokensSafe ==
    /\ last.op = "sanitize" =>
        /\ Len(last.r) = Len(last.args[1])
        /\ \A i \in 1..Len(last.r) :
            /\ OnlySafeChars(last.r[i])
            /\ OnlySafeChars(last.args[1][i]) => last.r[i] = last.args[1][i]
        /\ sanitize_powershell_command(last.r) = last.r
    /\ last.op = "create" =>
        /\ \A i \in 1..Len(last.r) : OnlySafeChars(last.r[i])
        /\ sanitize_powershell_command(last.r) = last.r

\* a command with unsafe characters in its query has been sanitised, and
\* the query has changed
C6_Witness ==
    /\ last.op = "sanitize"
    /\ last.args[1] = <<S_powershell, S_Command, S_unsafe_query>>
    /\ last.r[1] = S_powershell
    /\ last.r[3] # S_unsafe_query


-----------------------------------------------------------------------------
(* Properties of the brightness controller *)

\* validate(v) is false: the validation returns, and returns false
ValidateIsFalse(v) ==
    validate_brightness_value(v).exc = "none" /\ ~validate_brightness_value(v).ret

\* C2: for every display and every value v the validation refuses,
\* BrightnessController.set_brightness(display, v) returns false, raises
\* nothing and runs no external process: the value is never coerced into
\* the range.
C2_InvalidValueRejected ==
    (last.op = "set" /\ ValidateIsFalse(last.args[2])) =>
        /\ last.r.ret = FALSE
        /\ last.r.exc = "none"
        /\ last.r.calls = <<>>

\* the external processes the last operation ran to set the brightness
SetCalls == {i \in 1..Len(last.r.calls) : last.r.calls[i].op = "set"}

\* C3: on every call path (BrightnessController.set_brightness, the
\* strategy called directly, test_brightness_support) every setter
\* command that is executed carries an integer between 0 and 100 that the
\* range validation accepts.
C3_ExecutedSetInRange ==
    last.op \in {"set", "wmi_set", "test"} =>
        \A i \in SetCalls :
            /\ last.r.calls[i].brightness.ty = "int"
            /\ last.r.calls[i].brightness.n \in 0..100
            /\ validate_brightness_value(last.r.calls[i].brightness).ret
            /\ last.r.calls[i].cmd # <<>>

\* test_brightness_support has read 72 and run the setter with it
C3_Witness ==
    /\ last.op = "test"
    /\ last.r.current = PyInt(72)
    /\ \E i \in SetCalls : last.r.calls[i].brightness = PyInt(72)

\* the command builder of the injected manager returns the empty command
\* for the query of get_brightness
BuilderRefusesGet ==
    security_create_safe_wmi_command(
        security, S_root_WMI, S_WmiMonitorBrightness, <<>>, <<>>) = <<>>

\* the command builder of the injected manager returns the empty command
\* for the setter call with this value
BuilderRefusesSet(v) ==
    security_create_safe_wmi_command(
        security, S_root_WMI, S_WmiMonitorBrightnessMethods,
        S_WmiSetBrightness, <<"1", ",">> \o FormatValue(v)) = <<>>

\* C7: when the command builder returns the empty command, the WMI
\* strategy's get_brightness returns None and its set_brightness returns
\* False, and neither runs an external process.
C7_EmptyCommandIsFailure ==
    /\ (last.op = "wmi_get" /\ BuilderRefusesGet) =>
        /\ last.r.value = PyNone
        /\ last.r.exc = "none"
        /\ last.r.calls = <<>>
    /\ (last.op = "wmi_set" /\ BuilderRefusesSet(last.args[2])) =>
        /\ last.r.ret = FALSE
        /\ last.r.exc = "none"
        /\ last.r.calls = <<>>

\* the strategy was asked to set a valid value, the setter process would
\* have succeeded, and the builder refused the command
C7_Witness ==
    /\ last.op = "wmi_set"
    /\ last.args[2] = PyInt(50)
    /\ last.args[3] = RunDone(0, <<>>)
    /\ BuilderRefusesSet(last.args[2])
    /\ last.r.ret = FALSE


-----------------------------------------------------------------------------
(* Properties of the display detector *)

\* a run of detect_displays has completed and no other has begun
RunCompleted == dpc = "idle"

\* neither detection strategy found a display in the run
BothFoundNothing == wmi_displays = <<>> /\ ddc_displays = <<>>

\* C8: after every completed run of detect_displays, at construction and
\* after each refresh, the stored list is non-empty; when neither strategy
\* found a display it holds exactly one record, of type "unknown"; when a
\* strategy found one it holds no fallback record.
C8_NonEmptyWithOneFallback ==
    RunCompleted =>
        /\ runs >= 1
        /\ Len(displays) >= 1
        /\ BothFoundNothing =>
            /\ Len(displays) = 1
            /\ displays[1].type = "unknown"
        /\ ~BothFoundNothing =>
            \A i \in 1..Len(displays) :
                displays[i].type # "unknown" /\ ~displays[i].is_fallback

\* a refresh, the second run, has completed with both queries timed out and
\* the enumeration failed, and the list holds the fallback record alone
C8_Witness ==
    /\ RunCompleted
    /\ runs = 2
    /\ outcomes = <<"TimeoutExpired", "TimeoutExpired", "OSError">>
    /\ displays = <<fallback_display>>

\* C9: no outcome of the shell queries or of the native enumeration makes
\* detect_displays or refresh_displays raise: the run never ends in an
\* exception, and when it has returned a display list is in place.
C9_DetectionNeverRaises ==
    /\ dpc # "raised"
    /\ RunCompleted => (Len(outcomes) = 3 /\ displays # <<>>)

\* a run has returned although the first query could not be started, the
\* second printed only header lines, and a callback of the enumeration failed
C9_Witness ==
    /\ RunCompleted
    /\ outcomes[1] = "OSError"
    /\ outcomes[2] = "done"
    /\ current_displays = <<>>
    /\ outcomes[3] = "callback_error"
    /\ displays # <<>>

\* the records of the list that carry this name
WithName(ds, name) == {i \in 1..Len(ds) : ds[i].name = name}

\* the merge of the two queries' results has taken place in the current run
Merged == dpc \in {"ddc", "fallback", "idle"}

\* C10: the display list never holds two records of the same name, and
\* when both queries yield a record of one name, the record kept is the
\* one of the earlier, brightness-methods query.
C10_MergedByName ==
    /\ \A i, j \in 1..Len(displays) :
        displays[i].name = displays[j].name => i = j
    /\ Merged =>
        \A i \in 1..Len(brightness_displays) :
            \A k \in WithName(displays, brightness_displays[i].name) :
                displays[k] = brightness_displays[i]
    /\ Merged =>
        \A j \in 1..Len(current_displays) :
            WithName(displays, current_displays[j].name) # {}

\* both queries named a first display, with different instances; the list
\* keeps the record of the methods query and, from the second query, only
\* the record of the name the first did not yield
C10_Witness ==
    /\ RunCompleted
    /\ Len(brightness_displays) = 1
    /\ Len(current_displays) = 2
    /\ brightness_displays[1].name = current_displays[1].name
    /\ brightness_displays[1].instance # current_displays[1].instance
    /\ Len(wmi_displays) = 2
    /\ displays[1] = brightness_displays[1]
    /\ displays[2] = current_displays[2]


-----------------------------------------------------------------------------
(* Properties of the control operations *)

\* the display is a record whose method has no registered strategy
Unregistered(display) == display # NoDisplay /\ display.method \notin {"wmi", "ddc"}

\* C11: for a display whose method has no registered strategy,
\* get_brightness returns None and set_brightness returns False for every
\* value, in the core facade and in the single-file controller, and neither
\* raises nor runs an external process.
C11_UnregisteredMethodRejected ==
    /\ (last.op \in {"get", "fast_get"} /\ Unregistered(last.args[1])) =>
        /\ last.r.value = PyNone
        /\ last.r.exc = "none"
        /\ last.r.calls = <<>>
    /\ (last.op \in {"set", "fast_set"} /\ Unregistered(last.args[1])) =>
        /\ last.r.ret = FALSE
        /\ last.r.exc = "none"
        /\ last.r.calls = <<>>


\* a text that is a non-negative integer in decimal digits
IsInteger(s) == s # <<>> /\ \A i \in 1..Len(s) : s[i] \in Digits

\* the text after the first colon of a line that holds one
AfterColon(s) == SubSeq(s, FirstColon(s, 1) + 1, Len(s))

\* the integer a line states: the line itself, or the value of "Key : Value"
StatedInteger(line) ==
    IF IsInteger(Strip(line)) THEN PyInt(DigitsToNat(Strip(line)))
    ELSE IF FirstColon(line, 1) # 0 /\ IsInteger(Strip(AfterColon(line)))
    THEN PyInt(DigitsToNat(Strip(AfterColon(line))))
    ELSE PyNone

RECURSIVE FirstStatedInteger(_)
FirstStatedInteger(lines) ==
    IF lines = <<>> THEN PyNone
    ELSE IF StatedInteger(Head(lines)) # PyNone THEN StatedInteger(Head(lines))
    ELSE FirstStatedInteger(Tail(lines))

\* a completed WMI query of the standard configuration
WmiQueried == last.op = "wmi_get" /\ security = "standard"

\* C12: the WMI get returns the integer of the first output line that is a
\* bare non-negative integer or a "Key : Value" line whose value is an
\* integer, and none on a timeout, a non-zero exit or when no line is such
C12_FirstParseableLine ==
    WmiQueried =>
        /\ last.r.exc = "none"
        /\ last.r.value =
              IF last.args[2].kind = "done" /\ last.args[2].rc = 0
              THEN FirstStatedInteger(SplitLines(Strip(last.args[2].out)))
              ELSE PyNone


\* a completed set of the standard configuration on a WMI display with a
\* value the validation accepts
WmiSetOfValidValue ==
    /\ last.op \in {"set", "wmi_set", "fast_set"}
    /\ security = "standard"
    /\ last.args[1] # NoDisplay
    /\ last.args[1].method = "wmi"
    /\ validate_brightness_value(last.args[2]).exc = "none"
    /\ validate_brightness_value(last.args[2]).ret

\* the setter process ran to its end and exited with zero
SetterExitedZero == last.args[3].kind = "done" /\ last.args[3].rc = 0

\* C13: for a WMI display and a valid value, set returns true exactly when
\* the setter process exits with zero; a timeout or any other error of the
\* process gives false, and nothing is raised.
C13_SetTrueIffExitZero ==
    WmiSetOfValidValue =>
        /\ last.r.ret <=> SetterExitedZero
        /\ last.r.exc = "none"

\* BrightnessController.set_brightness has run the setter for 50 on a WMI
\* display, the setter exited with zero and the call returned true
C13_Witness ==
    /\ WmiSetOfValidValue
    /\ last.op = "set"
    /\ last.args[2] = PyInt(50)
    /\ SetterExitedZero
    /\ last.r.ret

\* the same call with a setter that timed out has returned false
C13_WitnessTimeout ==
    /\ WmiSetOfValidValue
    /\ last.args[3].kind = "timeout"
    /\ ~last.r.ret


\* one completed call of a get or a set, on any layer of either variant
SingleGetOrSet ==
    last.op \in {"get", "set", "wmi_get", "wmi_set", "ddc_get", "ddc_set",
                 "fast_get", "fast_set"}

\* C14: nothing is retried: one get or set call runs at most one external
\* process, a set on a WMI display with a valid value runs exactly one (the
\* setter), and a failed process ends the call with the failure result.
C14_AtMostOneInvocation ==
    /\ SingleGetOrSet => Len(last.r.calls) <= 1
    /\ WmiSetOfValidValue =>
          /\ Len(last.r.calls) = 1
          /\ last.r.calls[1].op = "set"
          /\ ~SetterExitedZero => ~last.r.ret

\* a set of 50 on a WMI display whose setter exited with 1 has run one
\* process and returned false
C14_Witness ==
    /\ WmiSetOfValidValue
    /\ last.args[2] = PyInt(50)
    /\ last.args[3] = RunDone(1, <<>>)
    /\ Len(last.r.calls) = 1
    /\ ~last.r.ret


\* a completed test_brightness_support
TestedSupport == last.op = "test"

\* what the strategy's get returns for the tested display, none if it
\* raises or has no strategy
TestedGetValue ==
    IF last.args[1].method \notin controllers THEN PyNone
    ELSE IF StrategyGet(security, last.args[1], last.args[2]).exc # "none" THEN PyNone
    ELSE StrategyGet(security, last.args[1], last.args[2]).value

\* C15: test_brightness_support calls the strategy's set only when its get
\* returned a value, at most once and with exactly that value, so every
\* setter process it runs carries that value; when the get fails the set
\* is never called and the result reports get false and set false.
C15_TestSetsOnlyReadValue ==
    TestedSupport =>
        /\ Len(last.r.set_args) <= 1
        /\ \A i \in 1..Len(last.r.set_args) :
              TestedGetValue # PyNone /\ last.r.set_args[i] = TestedGetValue
        /\ \A i \in SetCalls : last.r.calls[i].brightness = TestedGetValue
        /\ Cardinality(SetCalls) <= 1
        /\ TestedGetValue = PyNone =>
              /\ last.r.set_args = <<>>
              /\ SetCalls = {}
              /\ ~last.r.get_brightness
              /\ ~last.r.set_brightness
        /\ TestedGetValue # PyNone =>
              /\ last.r.set_args = <<TestedGetValue>>
              /\ last.r.get_brightness

\* a test whose get read 72 has called the set once, with 72
C15_Witness ==
    /\ TestedSupport
    /\ TestedGetValue = PyInt(72)
    /\ last.r.set_args = <<PyInt(72)>>
    /\ \E i \in SetCalls : last.r.calls[i].brightness = PyInt(72)

\* a test whose get timed out has called no set and reports neither
C15_WitnessGetFailed ==
    /\ TestedSupport
    /\ last.args[1].method = "wmi"
    /\ last.args[2].kind = "timeout"
    /\ last.r.set_args = <<>>
    /\ ~last.r.get_brightness /\ ~last.r.set_brightness


\* a completed call that the placeholder strategy served
PlaceholderServed ==
    \/ last.op \in {"ddc_get", "ddc_set"}
    \/ /\ last.op \in {"get", "set", "test"}
       /\ last.args[1] # NoDisplay
       /\ last.args[1].method = "ddc"

\* C16: the placeholder strategy never runs an external process; its get
\* returns the constant 50 for every display and whatever sets preceded;
\* its set returns true for every value the validation accepts and does
\* not return true for any other value.
C16_PlaceholderConstant ==
    /\ PlaceholderServed => last.r.calls = <<>>
    /\ (last.op \in {"ddc_get", "get"} /\ PlaceholderServed) =>
          /\ last.r.value = PyInt(placeholder_brightness)
          /\ last.r.exc = "none"
    /\ last.op = "ddc_set" =>
          /\ last.r.ret <=> /\ validate_brightness_value(last.args[2]).exc = "none"
                            /\ validate_brightness_value(last.args[2]).ret
          /\ last.r.exc = validate_brightness_value(last.args[2]).exc

\* the placeholder's get has answered 50 after sets were reported done
C16_Witness ==
    /\ last.op = "ddc_get"
    /\ ddc_sets = MaxSets
    /\ last.r.value = PyInt(placeholder_brightness)

\* C16 as stated: the placeholder's set reports success unconditionally
C16_SetAlwaysSucceeds ==
    last.op = "ddc_set" => last.r.ret /\ last.r.exc = "none"


-----------------------------------------------------------------------------
(* Properties of the graphical interfaces *)

\* C17: whenever BrightnessGUI puts a value read back from get_brightness
\* into the slider on the interaction thread, updating is true at that
\* moment (so that _on_brightness_change returns without starting a write).
C17_ReadBackUnderGuard == readback_updating \subseteq {TRUE}

\* C18: every external call (the shell invocations of detection, get and
\* set, the native monitor enumeration) is executed on a worker thread and
\* never on the interaction thread, the detection at start-up included.
C18_ExternalCallsOffMainThread == ext_threads \subseteq {"worker"}

\* C19: no worker thread modifies a visible element (slider variable,
\* brightness label, status label, display list): every result of an
\* asynchronous get, set, refresh or support test is applied by a callback
\* handed to and run on the interaction thread.
C19_WidgetsOnlyOnMainThread == widget_threads \subseteq {"main"}

\* a worker's read-back value 72 has reached the slider and the label, and
\* its thread has ended
C19_Witness ==
    /\ brightness_var = 72
    /\ workers = <<>>
    /\ posted = <<>>
    /\ "worker" \in ext_threads
    /\ widget_threads = {"main"}

\* C20: in OptimizedBrightnessGUI at most one delayed write of the slider
\* is pending, and no two background writes are started less than 0.5
\* seconds apart, whatever slider events and preset presses occur.
C20_DebouncedWrites ==
    variant = "single" =>
        /\ Cardinality(timers) <= 1
        /\ min_gap = -1 \/ min_gap >= min_update_interval_ms

\* two writes were started, the second by the slider's timer after a later
\* slider event had replaced an earlier timer
C20_Witness ==
    /\ variant = "single"
    /\ min_gap >= min_update_interval_ms
    /\ update_timer = MaxTimers
    /\ timers = {}

\* the operation that runs alone has failed and its failure message is
\* the next callback the interaction thread runs
FailureShown ==
    /\ before # NoSnapshot
    /\ posted # <<>>
    /\ Head(posted).cb = "error"

\* C21: when a write or read triggered from the GUI fails, a failure
\* status is shown and the selected display, the display list, the slider
\* value and the percentage shown are what they were before the
\* operation was triggered.
C21_FailureLeavesState ==
    FailureShown =>
        before = GuiState(current_display, gui_displays, brightness_var,
                          brightness_label)

-----------------------------------------------------------------------------
(* Properties of the start-up *)

\* the platform, the shell or the toolkit check of SystemChecker fails
RequiredCheckFails(env) ==
    ~check_platform(env) \/ ~check_powershell(env) \/ ~check_tkinter(env)

\* C22: when the platform, shell or toolkit check fails, the requirements
\* check reports failure whatever the optional WMI check gives, and the
\* application exits without constructing the GUI and without having
\* created any window.
C22_StartupFailureIsFatal ==
    /\ (last.op = "check_all" /\ RequiredCheckFails(last.args[1])) =>
            /\ last.r.exc = "none"
            /\ ~last.r.passed
            /\ last.r.windows = {}
    /\ (last.op = "main" /\ ~check_requirements(last.args[1]).passed) =>
            /\ last.r.exit = 1
            /\ ~last.r.gui
            /\ last.r.windows = {}

-----------------------------------------------------------------------------
(* Properties of the detector's list *)

\* C23: after a detection run or a refresh has completed, the stored list
\* consists exactly of the records that run produced, or of the single
\* fallback record; no record of the previous list is carried over.
\* While the run is under way the list holds what the run has produced
\* so far.
C23_RefreshReplacesList ==
    /\ RunCompleted => displays = WithFallback(wmi_displays \o ddc_displays)
    /\ dpc \in {"methods", "current"} => displays = <<>>
    /\ dpc = "ddc" => displays = wmi_displays
    /\ dpc = "fallback" => displays = wmi_displays \o ddc_displays

\* a refresh, the second run, has completed and found an external monitor
\* only: the list holds that record and nothing of the run before
C23_Witness ==
    /\ RunCompleted
    /\ runs = 2
    /\ wmi_displays = <<>>
    /\ Len(displays) = 1
    /\ displays[1].method = "ddc"

\* C26: once the detector has been constructed, the list get_displays
\* hands out is non-empty at every moment, also while a refresh is running.
C26_ListNeverSeenEmpty == runs >= 1 => get_displays # <<>>

-----------------------------------------------------------------------------
(* Properties of the threads of the modular interface *)

\* a step in which the user moved the slider or pressed a preset: the
\* variable of the slider changes and no handed-over callback is consumed
SliderEventStep == brightness_var' # brightness_var /\ posted' = posted

\* C24: in the modular interface every slider or preset event that is
\* accepted (no read-back has set the flag, a display is selected) starts
\* a write thread of its own, whatever writes are already in flight, so
\* that two writes can be in flight at once.
C24_EveryAcceptedEventStartsAWrite ==
    [][(variant = "modular" /\ SliderEventStep /\ ~updating
            /\ current_display # NoDisplay)
        => Cardinality({i \in 1..Len(workers') : workers'[i].kind = "set"})
               = Cardinality(WritesInFlight) + 1]_vars

\* two write threads are in flight, neither has got its result
C24_Witness ==
    /\ variant = "modular"
    /\ Cardinality(WritesInFlight) = 2
    /\ \A i \in WritesInFlight : workers[i].pc = "call"

\* the read-back threads whose get_brightness call is being executed
ReadBacksInFlight ==
    {i \in 1..Len(workers) : workers[i].kind = "get" /\ workers[i].pc = "call"}

\* C29: in the modular interface the flag "updating" is set whenever the
\* get_brightness call of a read-back thread is in flight, also when two
\* read-backs overlap, and it is clear whenever no read-back thread exists.
C29_UpdatingTracksReadBacks ==
    variant = "modular" =>
        /\ ReadBacksInFlight # {} => updating
        /\ (\A i \in 1..Len(workers) : workers[i].kind # "get") => ~updating

-----------------------------------------------------------------------------
(* Properties of the writes the slider starts *)

\* C27: a write started by a slider or preset event is applied to the
\* display that was selected at the moment of the event, also when the
\* selection changes before the write thread makes its call.
C27_WriteGoesToDisplayOfEvent == write_targets \subseteq {TRUE}

\* C28: as long as every external call has succeeded, the value of the
\* user's last slider or preset event is not dropped, neither by the
\* "updating" guard nor by the time gate, and no write of an earlier event
\* is applied after the write of the last one.
C28_LastEventIsApplied == last_event \notin {"dropped", "overridden"}

-----------------------------------------------------------------------------
(* Properties of the values the controller hands out *)

\* C25: BrightnessController.get_brightness returns nothing or an integer
\* between 0 and 100, whatever the display record and whatever the query
\* printed, lines holding an integer above 100 included.
C25_GetResultInRange ==
    (last.op = "get" /\ last.r.exc = "none") =>
        \/ last.r.value = PyNone
        \/ last.r.value.ty = "int" /\ last.r.value.n \in 0..100

-----------------------------------------------------------------------------
(* Properties of the display records under the controller's calls *)

\* the number of threads of the kind at the position
ThreadsAt(ws, kind, pc) ==
    Cardinality({i \in 1..Len(ws) : ws[i].kind = kind /\ ws[i].pc = pc})

\* C30: in the modular interface the list of displays changes only when
\* the interface is constructed or a refresh thread completes its
\* detection, and the selected record changes only with a selection, which
\* starts a read-back thread; the get, set and test calls of the worker
\* threads, succeeding or failing, leave the list and the record as they
\* were.
C30_CallsLeaveRecordsUnchanged ==
    [][variant = "modular" =>
        /\ gui_displays' # gui_displays =>
               ThreadsAt(workers', "refresh", "call")
                   = ThreadsAt(workers, "refresh", "call") - 1
        /\ current_display' # current_display =>
               ThreadsAt(workers', "get", "start")
                   = ThreadsAt(workers, "get", "start") + 1]_vars

\* a call of a worker thread on the second display of the list has failed
\* and its error message is about to be shown; the record and the list are
\* as detected
C30_Witness ==
    /\ variant = "modular"
    /\ "worker" \in ext_threads
    /\ posted # <<>> /\ Head(posted).cb = "error"
    /\ Len(gui_displays) = 2
    /\ current_display = gui_displays[2]
    /\ gui_displays \in GuiDisplayLists

====
